---- MODULE Spec2Model ----
(***************************************************************************)
(* Block store of the email builder (zustand store `useEditorStore`):      *)
(* the block tree, the selection, the bounded undo/redo history and the    *)
(* structural mutations that funnel through it; the property panel's style *)
(* listener; and the drag engine (`DragDropManager`) that turns pointer    *)
(* gestures over the rendered canvas into store calls.                     *)
(***************************************************************************)
EXTENDS Integers, Sequences, FiniteSets, TLC

\* ------------------------------------------------------------------ bounds
\* number of structural mutation calls explored by Spec
MaxCalls == 2
\* number of selection, hover, drag-field, settings and render calls explored
MaxUiCalls == 1
\* last id generateId may hand out in Spec
MaxId == 11
\* number of structural mutation calls explored by SpecDeep
MaxDeepCalls == 52
\* number of drags started in SpecDrag
MaxGestures == 1
\* number of pieces of the texts handed to replaceVariables
MaxPieces == 3

\* --------------------------------------------------------------- constants
MAX_HISTORY_LENGTH == 50

\* `null` selection / `undefined` parentId (both falsy in the source)
null == 0
\* `null` where the other values are strings (dropPosition, a drag payload's
\* type, a drop target's position)
none == "null"
\* the omitted optional `index?: number` argument of addBlock
NoIndex == -100
\* an id that no block of any tree carries (a stale reference)
MissingId == 99
\* ids of the blocks of the documents handed to setBlocks; generateId
\* (uuid v4) never returns one of them
FirstFreshId == 8

VARIABLES
  blocks,           \* EditorState.blocks
  selectedBlockId,  \* EditorState.selectedBlockId
  history,          \* EditorState.history = [past, future]
  isDirty,          \* EditorState.isDirty
  nextId,           \* the next value of generateId()
  calls,            \* structural mutation calls made since construction
  uiCalls,          \* selection, hover and drag-field calls made since construction
  trip,             \* the round trip under way: n mutation calls on the fresh store,
                    \* then undos, then redos; n = -1 once the calls left that shape
  last,             \* the last store call and its arguments
  prev,             \* the store state that call started from
  prevStyles,       \* the styles objects that call started from
  hoveredBlockId,   \* EditorState.hoveredBlockId
  draggedBlockId,   \* EditorState.draggedBlockId
  dropTargetId,     \* EditorState.dropTargetId
  dropPosition,     \* EditorState.dropPosition
  styleObjects,     \* the `styles` objects on the heap, by the reference blocks hold
  dragData,         \* DragDropManager.dragData
  currentTarget,    \* DragDropManager.currentTarget
  blockRects,       \* DragDropManager.blockRects
  columnRects,      \* DragDropManager.columnRects
  rafId,            \* DragDropManager.rafId: a frame callback is pending
  lastX,            \* DragDropManager.lastX
  lastY,            \* DragDropManager.lastY
  gestures,         \* drags started so far
  frameRequests,    \* callbacks handleDragOver handed to requestAnimationFrame
                    \* that the browser has neither run nor cancelled
  ghostElement,     \* DragDropManager.ghostElement is set
  ghosts,           \* the .drag-ghost elements in document.body
  classes,          \* the drag classes that elements of the document carry
  indicators,       \* the .drop-indicator-line elements in the document
  emailStyles,      \* EditorState.emailStyles
  variables,        \* EditorState.variables
  previewMode,      \* EditorState.previewMode
  zoom,             \* EditorState.zoom
  showGrid,         \* EditorState.showGrid
  text,             \* a text, piece by piece
  output,           \* the string the last conversion returned
  source,           \* what that conversion was given: the text, the document, nothing yet
  assetUpload,      \* how the editor uploads assets: config.onAssetUpload, the
                    \* storage provider, or neither
  uploads,          \* the uploads handleImageUpload is awaiting, by block id
  released          \* the last release: the engine fields and the store state
                    \* handleDrop started from, until the next drag starts

\* the fields of the drag engine
engine ==
  <<dragData, currentTarget, blockRects, columnRects, rafId, lastX, lastY, gestures,
    frameRequests>>

\* the fields of the store that are no part of the document and its selection
settings == <<emailStyles, variables, previewMode, zoom, showGrid>>

\* a text and its conversion
conversion == <<text, output, source>>

\* the asset uploads
assets == <<assetUpload, uploads>>

\* what a drag shows: the ghost that follows the pointer and the classes and
\* indicator lines it puts on the canvas
affordances == <<ghostElement, ghosts, classes, indicators>>

vars == <<blocks, selectedBlockId, history, isDirty, nextId, calls, uiCalls, trip, last, prev,
          prevStyles,
          hoveredBlockId, draggedBlockId, dropTargetId, dropPosition,
          styleObjects, engine, affordances, settings, conversion, assets, released>>

\* ------------------------------------------------------------- block model
Max(a, b) == IF a > b THEN a ELSE b
Min(a, b) == IF a < b THEN a ELSE b

\* `styles` is the reference to the styles object the factory allocated for
\* the block: the object made for block `id` has reference `id`
Block(id, type, content, columns, children) ==
  [id |-> id, type |-> type, content |-> content,
   columns |-> columns, children |-> children, styles |-> id]

\* the value of a failed lookup
undefined == Block(0, "undefined", 0, <<>>, <<>>)

createTextBlock(id) == Block(id, "text", 0, <<>>, <<>>)
createButtonBlock(id) == Block(id, "button", 0, <<>>, <<>>)
createColumnBlock(id) == Block(id, "column", 0, <<>>, <<>>)
createColumnsBlock(id) ==
  Block(id, "columns", 0, <<createColumnBlock(id + 1), createColumnBlock(id + 2)>>, <<>>)

\* number of ids a factory call consumes
idsOf(type) == IF type = "columns" THEN 3 ELSE 1
createBlock(type, id) ==
  CASE type = "columns" -> createColumnsBlock(id)
    [] type = "button" -> createButtonBlock(id)
    [] OTHER -> createTextBlock(id)

\* Partial<Block> updates handed to updateBlock
Updates == {[content |-> 1]}

\* { ...block, ...updates }
Merge(block, updates) ==
  [f \in DOMAIN block |-> IF f \in DOMAIN updates THEN updates[f] ELSE block[f]]

\* ------------------------------------------------------------ tree helpers
RECURSIVE findBlockById(_, _)
RECURSIVE findInColumns(_, _)
findInColumns(columns, id) ==
  IF columns = <<>> THEN undefined
  ELSE LET column == Head(columns)
           found == findBlockById(column.children, id)
       IN IF column.id = id THEN column
          ELSE IF found # undefined THEN found
          ELSE findInColumns(Tail(columns), id)

findBlockById(bs, id) ==
  IF bs = <<>> THEN undefined
  ELSE LET block == Head(bs)
           found == IF block.type = "columns"
                    THEN findInColumns(block.columns, id) ELSE undefined
       IN IF block.id = id THEN block
          ELSE IF found # undefined THEN found
          ELSE findBlockById(Tail(bs), id)

RECURSIVE updateBlockInTree(_, _, _)
\* updateBlockInTree with the id test of the column branch left out
updateBlockInTreeEveryColumn(bs, id, updates) ==
  [i \in 1..Len(bs) |->
     LET block == bs[i] IN
     IF block.id = id THEN Merge(block, updates)
     ELSE IF block.type = "columns" THEN
       [block EXCEPT !.columns =
          [j \in 1..Len(block.columns) |-> Merge(block.columns[j], updates)]]
     ELSE block]

updateBlockInTree(bs, id, updates) ==
  [i \in 1..Len(bs) |->
     LET block == bs[i] IN
     IF block.id = id THEN Merge(block, updates)
     ELSE IF block.type = "columns" THEN
       [block EXCEPT !.columns =
          [j \in 1..Len(block.columns) |->
             LET column == block.columns[j] IN
             IF column.id = id THEN Merge(column, updates)
             ELSE [column EXCEPT
                     !.children = updateBlockInTree(column.children, id, updates)]]]
     ELSE block]

RECURSIVE deleteBlockFromTree(_, _)
\* deleteBlockFromTree that filters the top level and never enters a column
deleteBlockFromTreeTopLevelOnly(bs, id) ==
  SelectSeq(bs, LAMBDA b : b.id # id)

deleteBlockFromTree(bs, id) ==
  LET kept == SelectSeq(bs, LAMBDA b : b.id # id) IN
  [i \in 1..Len(kept) |->
     LET block == kept[i] IN
     IF block.type = "columns" THEN
       [block EXCEPT !.columns =
          [j \in 1..Len(block.columns) |->
             [block.columns[j] EXCEPT
                !.children = deleteBlockFromTree(block.columns[j].children, id)]]]
     ELSE block]

\* Array.prototype.splice(index, 0, item) on a copy of arr
splice(arr, index, item) ==
  LET n == Len(arr)
      start == IF index < 0 THEN Max(n + index, 0) ELSE Min(index, n)
  IN SubSeq(arr, 1, start) \o <<item>> \o SubSeq(arr, start + 1, n)

\* insertBlockInTree that splices one slot too far
insertBlockInTreeOffByOne(bs, newBlock, index, parentId) ==
  IF parentId = null THEN splice(bs, index + 1, newBlock)
  ELSE [i \in 1..Len(bs) |->
          LET block == bs[i] IN
          IF block.type = "columns" THEN
            [block EXCEPT !.columns =
               [j \in 1..Len(block.columns) |->
                  LET column == block.columns[j] IN
                  IF column.id = parentId
                  THEN [column EXCEPT
                          !.children = splice(column.children, index + 1, newBlock)]
                  ELSE column]]
          ELSE block]

insertBlockInTree(bs, newBlock, index, parentId) ==
  IF parentId = null THEN splice(bs, index, newBlock)
  ELSE [i \in 1..Len(bs) |->
          LET block == bs[i] IN
          IF block.type = "columns" THEN
            [block EXCEPT !.columns =
               [j \in 1..Len(block.columns) |->
                  LET column == block.columns[j] IN
                  IF column.id = parentId
                  THEN [column EXCEPT !.children = splice(column.children, index, newBlock)]
                  ELSE column]]
          ELSE block]

\* cloneBlock with the ids generateId hands out, n first; the result is the
\* clone and the next unused id
RECURSIVE cloneBlock(_, _)
RECURSIVE cloneChildren(_, _)
RECURSIVE cloneColumns(_, _)
cloneChildren(children, n) ==
  IF children = <<>> THEN [out |-> <<>>, next |-> n]
  ELSE LET c == cloneBlock(Head(children), n)
           rest == cloneChildren(Tail(children), c.next)
       IN [out |-> <<c.out>> \o rest.out, next |-> rest.next]

\* cloneColumns that re-ids the columns and keeps their children as they are
cloneColumnsShallow(columns, n) ==
  IF columns = <<>> THEN [out |-> <<>>, next |-> n]
  ELSE LET col == Head(columns)
           rest == cloneColumns(Tail(columns), n + 1)
       IN [out |-> <<[col EXCEPT !.id = n]>> \o rest.out, next |-> rest.next]

cloneColumns(columns, n) ==
  IF columns = <<>> THEN [out |-> <<>>, next |-> n]
  ELSE LET col == Head(columns)
           kids == cloneChildren(col.children, n + 1)
           rest == cloneColumns(Tail(columns), kids.next)
       IN [out |-> <<[col EXCEPT !.id = n, !.children = kids.out]>> \o rest.out,
           next |-> rest.next]

cloneBlock(block, n) ==
  IF block.type = "columns"
  THEN LET cols == cloneColumns(block.columns, n + 1)
       IN [out |-> [block EXCEPT !.id = n, !.columns = cols.out], next |-> cols.next]
  ELSE [out |-> [block EXCEPT !.id = n], next |-> n + 1]

\* Array.prototype.findIndex(b => b.id === id), 0-based, -1 on a miss
RECURSIVE findIndexFrom(_, _, _)
findIndexFrom(bs, id, i) ==
  IF i > Len(bs) THEN -1
  ELSE IF bs[i].id = id THEN i - 1
  ELSE findIndexFrom(bs, id, i + 1)
findIndex(bs, id) == findIndexFrom(bs, id, 1)

\* every id a lookup can hit: blocks, columns and column children
RECURSIVE AllIds(_)
AllIds(bs) ==
  UNION { {bs[i].id}
          \cup (IF bs[i].type = "columns"
                THEN UNION { {bs[i].columns[j].id} \cup AllIds(bs[i].columns[j].children)
                             : j \in 1..Len(bs[i].columns) }
                ELSE {})
          : i \in 1..Len(bs) }

\* ids of the columns of the tree
ColumnIds(bs) ==
  UNION { IF bs[i].type = "columns"
          THEN { bs[i].columns[j].id : j \in 1..Len(bs[i].columns) }
          ELSE {}
          : i \in 1..Len(bs) }

\* ---------------------------------------------------------------- history
\* pushToHistory without the slice
pushToHistoryUnbounded(h, bs) == [past |-> Append(h.past, bs), future |-> <<>>]

\* pushToHistory that keeps the pending redo entries
pushToHistoryKeepsFuture(h, bs) ==
  LET all == Append(h.past, bs)
      n == Len(all)
  IN [past |-> SubSeq(all, Max(n - MAX_HISTORY_LENGTH, 0) + 1, n), future |-> h.future]

pushToHistory(h, bs) ==
  LET all == Append(h.past, bs)
      n == Len(all)
  IN [past |-> SubSeq(all, Max(n - MAX_HISTORY_LENGTH, 0) + 1, n), future |-> <<>>]

\* the store state get() returns
state ==
  [blocks |-> blocks, selectedBlockId |-> selectedBlockId,
   hoveredBlockId |-> hoveredBlockId, draggedBlockId |-> draggedBlockId,
   dropTargetId |-> dropTargetId, dropPosition |-> dropPosition,
   history |-> history, isDirty |-> isDirty]

initialState ==
  [blocks |-> <<>>, selectedBlockId |-> null,
   hoveredBlockId |-> null, draggedBlockId |-> null,
   dropTargetId |-> null, dropPosition |-> none,
   history |-> [past |-> <<>>, future |-> <<>>], isDirty |-> FALSE]

\* undo that does not put the live tree on the future stack
undoForgetsLive(s) ==
  IF Len(s.history.past) = 0 THEN s
  ELSE LET previous == s.history.past[Len(s.history.past)]
           newPast == SubSeq(s.history.past, 1, Len(s.history.past) - 1)
       IN [s EXCEPT !.blocks = previous,
                    !.history = [past |-> newPast, future |-> s.history.future],
                    !.isDirty = TRUE]

\* undo() as a function of the store state
undo(s) ==
  IF Len(s.history.past) = 0 THEN s
  ELSE LET previous == s.history.past[Len(s.history.past)]
           newPast == SubSeq(s.history.past, 1, Len(s.history.past) - 1)
       IN [s EXCEPT !.blocks = previous,
                    !.history = [past |-> newPast,
                                 future |-> <<s.blocks>> \o s.history.future],
                    !.isDirty = TRUE]

\* redo that takes the far end of the future stack
redoFromFarEnd(s) ==
  IF Len(s.history.future) = 0 THEN s
  ELSE LET next == s.history.future[Len(s.history.future)]
           newFuture == SubSeq(s.history.future, 1, Len(s.history.future) - 1)
       IN [s EXCEPT !.blocks = next,
                    !.history = [past |-> Append(s.history.past, s.blocks),
                                 future |-> newFuture],
                    !.isDirty = TRUE]

\* redo() as a function of the store state
redo(s) ==
  IF Len(s.history.future) = 0 THEN s
  ELSE LET next == s.history.future[1]
           newFuture == Tail(s.history.future)
       IN [s EXCEPT !.blocks = next,
                    !.history = [past |-> Append(s.history.past, s.blocks),
                                 future |-> newFuture],
                    !.isDirty = TRUE]

\* ------------------------------------------------------------------- calls
Call(op, id, index, parentId) ==
  [op |-> op, id |-> id, index |-> index, parentId |-> parentId]

\* set(partial): the store takes the fields of s
Set(s) ==
  /\ blocks' = s.blocks
  /\ selectedBlockId' = s.selectedBlockId
  /\ hoveredBlockId' = s.hoveredBlockId
  /\ draggedBlockId' = s.draggedBlockId
  /\ dropTargetId' = s.dropTargetId
  /\ dropPosition' = s.dropPosition
  /\ history' = s.history
  /\ isDirty' = s.isDirty

\* the round trip once the calls have left its shape
NoTrip == [n |-> -1, undos |-> 0, redos |-> 0, final |-> <<>>]

\* bookkeeping of one structural mutation call
Mutation(call) ==
  /\ last' = call
  /\ prev' = state
  /\ prevStyles' = styleObjects
  /\ calls' = calls + 1
  /\ trip' = IF trip.n >= 0 /\ trip.undos = 0 /\ trip.redos = 0
             THEN [trip EXCEPT !.n = trip.n + 1, !.final = blocks']
             ELSE NoTrip
  /\ UNCHANGED uiCalls

setBlocks(newBlocks) ==
  /\ Set([state EXCEPT !.blocks = newBlocks,
                       !.history = pushToHistory(history, blocks),
                       !.isDirty = TRUE])
  /\ Mutation(Call("setBlocks", null, NoIndex, null))
  /\ UNCHANGED nextId

\* the caller made `type` with the factory just before the call
addBlock(type, index, parentId) ==
  LET block == createBlock(type, nextId)
      idx == IF index = NoIndex THEN Len(blocks) ELSE index
      newBlocks == insertBlockInTree(blocks, block, idx, parentId)
  IN /\ Set([state EXCEPT !.blocks = newBlocks,
                          !.selectedBlockId = block.id,
                          !.history = pushToHistory(history, blocks),
                          !.isDirty = TRUE])
     /\ Mutation(Call("addBlock", block.id, index, parentId))
     /\ nextId' = nextId + idsOf(type)

updateBlock(id, updates) ==
  LET newBlocks == updateBlockInTree(blocks, id, updates)
  IN /\ Set([state EXCEPT !.blocks = newBlocks,
                          !.history = pushToHistory(history, blocks),
                          !.isDirty = TRUE])
     /\ Mutation(Call("updateBlock", id, NoIndex, null))
     /\ UNCHANGED nextId

\* deleteBlock that leaves the selection as it is
deleteBlockKeepsSelection(id) ==
  LET newBlocks == deleteBlockFromTree(blocks, id)
  IN /\ Set([state EXCEPT !.blocks = newBlocks,
                          !.history = pushToHistory(history, blocks),
                          !.isDirty = TRUE])
     /\ Mutation(Call("deleteBlock", id, NoIndex, null))
     /\ UNCHANGED nextId

deleteBlock(id) ==
  LET newBlocks == deleteBlockFromTree(blocks, id)
  IN /\ Set([state EXCEPT !.blocks = newBlocks,
                          !.selectedBlockId =
                            IF selectedBlockId = id THEN null ELSE selectedBlockId,
                          !.history = pushToHistory(history, blocks),
                          !.isDirty = TRUE])
     /\ Mutation(Call("deleteBlock", id, NoIndex, null))
     /\ UNCHANGED nextId

moveBlock(id, toIndex, parentId) ==
  LET block == findBlockById(blocks, id)
      withoutBlock == deleteBlockFromTree(blocks, id)
      newBlocks == insertBlockInTree(withoutBlock, block, toIndex, parentId)
  IN /\ IF block = undefined
        THEN Set(state)
        ELSE Set([state EXCEPT !.blocks = newBlocks,
                               !.history = pushToHistory(history, blocks),
                               !.isDirty = TRUE])
     /\ Mutation(Call("moveBlock", id, toIndex, parentId))
     /\ UNCHANGED nextId

duplicateBlock(id) ==
  LET block == findBlockById(blocks, id)
      cloned == cloneBlock(block, nextId)
      blockIndex == findIndex(blocks, id)
      newBlocks == splice(blocks, blockIndex + 1, cloned.out)
  IN /\ IF block = undefined
        THEN Set(state) /\ UNCHANGED nextId
        ELSE /\ cloned.next - 1 <= MaxId
             /\ Set([state EXCEPT !.blocks = newBlocks,
                                  !.selectedBlockId = cloned.out.id,
                                  !.history = pushToHistory(history, blocks),
                                  !.isDirty = TRUE])
             /\ nextId' = cloned.next
     /\ Mutation(Call("duplicateBlock", id, NoIndex, null))

selectBlock(id) ==
  /\ selectedBlockId' = id
  /\ last' = Call("selectBlock", id, NoIndex, null)
  /\ prev' = state
  /\ prevStyles' = styleObjects
  /\ uiCalls' = uiCalls + 1
  /\ UNCHANGED <<blocks, history, isDirty, nextId, calls, trip>>
  /\ UNCHANGED <<hoveredBlockId, draggedBlockId, dropTargetId, dropPosition>>

hoverBlock(id) ==
  /\ hoveredBlockId' = id
  /\ last' = Call("hoverBlock", id, NoIndex, null)
  /\ prev' = state
  /\ prevStyles' = styleObjects
  /\ uiCalls' = uiCalls + 1
  /\ UNCHANGED <<blocks, history, isDirty, nextId, calls, trip>>
  /\ UNCHANGED <<selectedBlockId, draggedBlockId, dropTargetId, dropPosition>>

\* targetId ?? null and position ?? null: the caller passes null / none for
\* an omitted argument
setDrag(blockId, targetId, position) ==
  /\ draggedBlockId' = blockId
  /\ dropTargetId' = targetId
  /\ dropPosition' = position
  /\ last' = Call("setDrag", blockId, NoIndex, null)
  /\ prev' = state
  /\ prevStyles' = styleObjects
  /\ uiCalls' = uiCalls + 1
  /\ UNCHANGED <<blocks, history, isDirty, nextId, calls, trip>>
  /\ UNCHANGED <<selectedBlockId, hoveredBlockId>>

Undo ==
  /\ Set(undo(state))
  /\ last' = Call("undo", null, NoIndex, null)
  /\ prev' = state
  /\ prevStyles' = styleObjects
  /\ trip' = IF trip.n >= 0 /\ trip.redos = 0 /\ trip.undos < trip.n
             THEN [trip EXCEPT !.undos = trip.undos + 1]
             ELSE NoTrip
  /\ UNCHANGED <<nextId, calls, uiCalls, styleObjects, engine, affordances, settings,
                 conversion, assets, released>>

Redo ==
  /\ Set(redo(state))
  /\ last' = Call("redo", null, NoIndex, null)
  /\ prev' = state
  /\ prevStyles' = styleObjects
  /\ trip' = IF trip.n >= 0 /\ trip.undos = trip.n /\ trip.redos < trip.n
             THEN [trip EXCEPT !.redos = trip.redos + 1]
             ELSE NoTrip
  /\ UNCHANGED <<nextId, calls, uiCalls, styleObjects, engine, affordances, settings,
                 conversion, assets, released>>

\* ------------------------------------------------------------------ inputs
\* documents handed to setBlocks (ids below FirstFreshId)
SampleTree ==
  << createTextBlock(1),
     Block(2, "columns", 0,
           << Block(3, "column", 0, <<>>, <<createTextBlock(4)>>),
              Block(5, "column", 0, <<>>, <<>>) >>,
           <<>>) >>

SetTrees == {<<>>, SampleTree}
NewTypes == {"text", "columns"}
TargetIds == AllIds(blocks) \cup {MissingId}
ParentIds == {null, MissingId} \cup ColumnIds(blocks)
Indices == 0..2
\* the ids the canvas can select: rendered block wrappers, or nothing
SelectIds == (AllIds(blocks) \ ColumnIds(blocks)) \cup {null}

\* what a store call made from outside the panel and the drag engine leaves alone
outside == <<styleObjects, engine, affordances, settings, conversion, assets, released>>

SetBlocks ==
  calls < MaxCalls /\ (\E t \in SetTrees : setBlocks(t)) /\ UNCHANGED outside

AddBlock ==
  /\ calls < MaxCalls
  /\ \E type \in NewTypes, index \in {NoIndex, 0, 1}, parentId \in ParentIds :
       /\ nextId + idsOf(type) - 1 <= MaxId
       /\ addBlock(type, index, parentId)
  /\ UNCHANGED outside

UpdateBlock ==
  /\ calls < MaxCalls
  /\ \E id \in TargetIds, u \in Updates : updateBlock(id, u)
  /\ UNCHANGED outside

DeleteBlock ==
  calls < MaxCalls /\ (\E id \in TargetIds : deleteBlock(id)) /\ UNCHANGED outside

MoveBlock ==
  /\ calls < MaxCalls
  /\ \E id \in TargetIds, toIndex \in Indices, parentId \in ParentIds :
       moveBlock(id, toIndex, parentId)
  /\ UNCHANGED outside

DuplicateBlock ==
  calls < MaxCalls /\ (\E id \in TargetIds : duplicateBlock(id)) /\ UNCHANGED outside

SelectBlock ==
  /\ uiCalls < MaxUiCalls
  /\ \E id \in SelectIds : selectBlock(id)
  /\ UNCHANGED outside

\* no drag under way: the fields of a fresh DragDropManager, and of one after cleanup()
NoDrag == [type |-> none, blockType |-> none, blockId |-> null, sourceIndex |-> NoIndex]
NoTarget == [blockId |-> null, index |-> 0, position |-> none, parentId |-> null]

NoRelease ==
  [dragData |-> NoDrag, currentTarget |-> NoTarget, rafId |-> FALSE, state |-> initialState]

idle ==
  /\ dragData = NoDrag
  /\ currentTarget = NoTarget
  /\ blockRects = <<>>
  /\ columnRects = <<>>
  /\ rafId = FALSE
  /\ ghostElement = FALSE

\* DEFAULT_EMAIL_STYLES, by style group, and a variable list
DEFAULT_EMAIL_STYLES == [body |-> 0, container |-> 0]
DEFAULT_VARIABLES == <<[key |-> "first_name", defaultValue |-> "Subscriber"]>>

\* initialState: the fields beside the document
defaults ==
  /\ emailStyles = DEFAULT_EMAIL_STYLES
  /\ previewMode = "desktop"
  /\ showGrid = FALSE
  /\ zoom = 100

\* nothing converted yet
unconverted ==
  /\ text = <<>>
  /\ output = <<>>
  /\ source = "nothing"

\* an editor without upload callback or storage provider, no upload started
offline ==
  /\ assetUpload = "objectURL"
  /\ uploads = {}

\* the document before any drag: no frame requested, nothing shown
clean ==
  /\ frameRequests = 0
  /\ ghosts = 0
  /\ classes = {}
  /\ indicators = {}

Init ==
  /\ hoveredBlockId = initialState.hoveredBlockId
  /\ draggedBlockId = initialState.draggedBlockId
  /\ dropTargetId = initialState.dropTargetId
  /\ dropPosition = initialState.dropPosition
  /\ styleObjects = [r \in 1..MaxId |-> 0]
  /\ prevStyles = styleObjects
  /\ idle
  /\ clean
  /\ unconverted
  /\ offline
  /\ defaults
  /\ variables = <<>>
  /\ lastX = 0
  /\ lastY = 0
  /\ gestures = 0
  /\ released = NoRelease
  /\ blocks = initialState.blocks
  /\ selectedBlockId = initialState.selectedBlockId
  /\ history = initialState.history
  /\ isDirty = initialState.isDirty
  /\ nextId = FirstFreshId
  /\ calls = 0
  /\ uiCalls = 0
  /\ trip = [n |-> 0, undos |-> 0, redos |-> 0, final |-> <<>>]
  /\ last = Call("create", null, NoIndex, null)
  /\ prev = initialState

Next ==
  \/ SetBlocks
  \/ AddBlock
  \/ UpdateBlock
  \/ DeleteBlock
  \/ MoveBlock
  \/ DuplicateBlock
  \/ Undo
  \/ Redo

Spec == Init /\ [][Next]_vars

\* ------------------------------------------------------- the deep history
\* long runs of mutations over one document, so that the history fills up
DeepTree == <<createTextBlock(1)>>

DeepSetBlocks == calls < MaxDeepCalls /\ setBlocks(DeepTree) /\ UNCHANGED outside

DeepMoveBlock ==
  /\ calls < MaxDeepCalls
  /\ \E id \in AllIds(blocks) : moveBlock(id, 0, null)
  /\ UNCHANGED outside

NextDeep ==
  \/ DeepSetBlocks
  \/ DeepMoveBlock
  \/ Undo
  \/ Redo

SpecDeep == Init /\ [][NextDeep]_vars

\* ------------------------------------------------------ the open document
\* the editor opened on a document (`new MailBuilder({initialBlocks})`), the
\* store calls its canvas and its host make, and the property panel
RichTree ==
  << createButtonBlock(1),
     Block(2, "columns", 0,
           << Block(3, "column", 0, <<>>, <<createTextBlock(4), createButtonBlock(5)>>),
              Block(6, "column", 0, <<>>, <<createTextBlock(7)>>) >>,
           <<>>) >>

\* the ids of the blocks of one sequence
IdsOf(bs) == {bs[i].id : i \in 1..Len(bs)}

\* the blocks rendered as .block-wrapper (a column is rendered as a drop-zone)
Wrappers(bs) == AllIds(bs) \ ColumnIds(bs)

DocTrees == {<<>>, RichTree}
LeafTypes == {"text", "button"}
\* the block types whose handler attaches addStyleListener to the panel
StyledTypes == {"heading", "button", "video", "footer"}
StyleValues == {1}
DragPositions == {none, "before"}

\* the constructor: initStore calls setBlocks(config.initialBlocks || [])
\* on the fresh store; config.onAssetUpload and config.storage decide how
\* assets are uploaded, and the store takes `config.variables || DEFAULT_VARIABLES`
OpenedWith(trees, ways, configVariables) ==
  /\ \E tree \in trees :
       /\ blocks = tree
       /\ trip = [n |-> 1, undos |-> 0, redos |-> 0, final |-> tree]
  /\ selectedBlockId = initialState.selectedBlockId
  /\ hoveredBlockId = initialState.hoveredBlockId
  /\ draggedBlockId = initialState.draggedBlockId
  /\ dropTargetId = initialState.dropTargetId
  /\ dropPosition = initialState.dropPosition
  /\ history = pushToHistory(initialState.history, initialState.blocks)
  /\ isDirty = TRUE
  /\ nextId = FirstFreshId
  /\ calls = 0
  /\ uiCalls = 0
  /\ last = Call("setBlocks", null, NoIndex, null)
  /\ prev = initialState
  /\ styleObjects = [r \in 1..MaxId |-> 0]
  /\ prevStyles = styleObjects
  /\ idle
  /\ clean
  /\ unconverted
  /\ assetUpload \in ways
  /\ uploads = {}
  /\ defaults
  /\ variables = configVariables
  /\ lastX = 0
  /\ lastY = 0
  /\ gestures = 0
  /\ released = NoRelease

\* an editor without upload callback and storage provider
Opened(trees) == OpenedWith(trees, {"objectURL"}, DEFAULT_VARIABLES)

InitDoc == Opened(DocTrees)

DocAddBlock ==
  /\ calls < MaxCalls
  /\ nextId <= MaxId
  /\ \E type \in LeafTypes, index \in {NoIndex, 0},
        parentId \in {null} \cup ColumnIds(blocks) :
       addBlock(type, index, parentId)
  /\ UNCHANGED outside

DocDeleteBlock ==
  calls < MaxCalls /\ (\E id \in TargetIds : deleteBlock(id)) /\ UNCHANGED outside

DocDuplicateBlock ==
  /\ calls < MaxCalls
  /\ \E id \in AllIds(blocks) : duplicateBlock(id)
  /\ UNCHANGED outside

HoverBlock ==
  /\ uiCalls < MaxUiCalls
  /\ \E id \in SelectIds : hoverBlock(id)
  /\ UNCHANGED outside

SetDrag ==
  /\ uiCalls < MaxUiCalls
  /\ \E blockId \in IdsOf(blocks), position \in DragPositions :
       setDrag(blockId, IF position = none THEN null ELSE blockId, position)
  /\ UNCHANGED outside

\* the `change` listener addStyleListener put on an input of the property
\* panel, which renderProperties rendered for the selected block: it writes
\* into the styles object of that block and then calls updateBlock
StyleChange ==
  /\ calls < MaxCalls
  /\ selectedBlockId # null
  /\ LET block == findBlockById(blocks, selectedBlockId)
         styles == block.styles
     IN /\ block # undefined
        /\ block.type \in StyledTypes
        /\ \E value \in StyleValues :
             styleObjects' = [styleObjects EXCEPT ![styles] = value]
        /\ updateBlock(block.id, [styles |-> styles])
  /\ UNCHANGED <<engine, affordances, settings, conversion, assets, released>>

NextDoc ==
  \/ DocAddBlock
  \/ DocDeleteBlock
  \/ DocDuplicateBlock
  \/ StyleChange

SpecDoc == InitDoc /\ [][NextDoc]_vars

\* deletions among selection, hover and drag-field calls
NextUi ==
  \/ DocDeleteBlock
  \/ SelectBlock
  \/ HoverBlock
  \/ SetDrag

SpecUi == InitDoc /\ [][NextUi]_vars

\* -------------------------------------------------------------- settings
\* bookkeeping of a call that is no structural mutation
settingsCall(op) ==
  /\ last' = Call(op, null, NoIndex, null)
  /\ prev' = state
  /\ prevStyles' = styleObjects
  /\ uiCalls' = uiCalls + 1
  /\ UNCHANGED <<blocks, history, nextId, calls, trip>>
  /\ UNCHANGED <<selectedBlockId, hoveredBlockId, draggedBlockId, dropTargetId, dropPosition>>

setEmailStyles(styles) ==
  /\ emailStyles' = Merge(emailStyles, styles)
  /\ isDirty' = TRUE
  /\ settingsCall("setEmailStyles")
  /\ UNCHANGED <<variables, previewMode, zoom, showGrid>>

\* setVariables that records the document in the history
setVariablesTracked(vs) ==
  /\ variables' = vs
  /\ last' = Call("setVariables", null, NoIndex, null)
  /\ prev' = state
  /\ prevStyles' = styleObjects
  /\ uiCalls' = uiCalls + 1
  /\ history' = pushToHistory(history, blocks)
  /\ UNCHANGED <<blocks, nextId, calls, trip>>
  /\ UNCHANGED <<selectedBlockId, hoveredBlockId, draggedBlockId, dropTargetId, dropPosition>>
  /\ UNCHANGED <<isDirty, emailStyles, previewMode, zoom, showGrid>>

setVariables(vs) ==
  /\ variables' = vs
  /\ settingsCall("setVariables")
  /\ UNCHANGED <<isDirty, emailStyles, previewMode, zoom, showGrid>>

setPreviewMode(mode) ==
  /\ previewMode' = mode
  /\ settingsCall("setPreviewMode")
  /\ UNCHANGED <<isDirty, emailStyles, variables, zoom, showGrid>>

setZoom(z) ==
  /\ zoom' = Max(25, Min(200, z))
  /\ settingsCall("setZoom")
  /\ UNCHANGED <<isDirty, emailStyles, variables, previewMode, showGrid>>

toggleGrid ==
  /\ showGrid' = ~showGrid
  /\ settingsCall("toggleGrid")
  /\ UNCHANGED <<isDirty, emailStyles, variables, previewMode, zoom>>

\* MailBuilder.loadData(data): setBlocks, setEmailStyles and setVariables,
\* one after the other; `last` keeps the structural call
loadData(data) ==
  /\ setBlocks(data.blocks)
  /\ emailStyles' = Merge(emailStyles, data.styles)
  /\ variables' = data.variables
  /\ UNCHANGED <<previewMode, zoom, showGrid>>

\* partial style sets, variable lists, zoom levels and saved documents
StylePartials == {[body |-> 1], [container |-> 1]}
VariableLists == {<<>>, <<[key |-> "city", defaultValue |-> "Tunis"]>>}
ZoomLevels == {10, 150, 300}
EmailDatas ==
  {[blocks |-> t, styles |-> [body |-> 1, container |-> 1], variables |-> <<>>] :
     t \in DocTrees}

beside == <<styleObjects, engine, affordances, conversion, assets, released>>

SetEmailStyles ==
  /\ uiCalls < MaxUiCalls
  /\ \E styles \in StylePartials : setEmailStyles(styles)
  /\ UNCHANGED beside

SetVariables ==
  /\ uiCalls < MaxUiCalls
  /\ \E vs \in VariableLists : setVariables(vs)
  /\ UNCHANGED beside

SetPreviewMode ==
  /\ uiCalls < MaxUiCalls
  /\ \E mode \in {"desktop", "mobile"} : setPreviewMode(mode)
  /\ UNCHANGED beside

SetZoom ==
  /\ uiCalls < MaxUiCalls
  /\ \E z \in ZoomLevels : setZoom(z)
  /\ UNCHANGED beside

ToggleGrid ==
  /\ uiCalls < MaxUiCalls
  /\ toggleGrid
  /\ UNCHANGED beside

LoadData ==
  /\ calls < MaxCalls
  /\ \E data \in EmailDatas : loadData(data)
  /\ UNCHANGED beside

NextSettings ==
  \/ SelectBlock
  \/ HoverBlock
  \/ SetDrag
  \/ SetEmailStyles
  \/ SetVariables
  \/ SetPreviewMode
  \/ SetZoom
  \/ ToggleGrid
  \/ LoadData
  \/ Undo
  \/ Redo

SpecSettings == InitDoc /\ [][NextSettings]_vars

\* ------------------------------------------------------------- variables
\* A string is a sequence of characters. The characters of the texts:
Whitespace == {" "}
IdentStart == {"a", "b", "e", "_"}
IdentRest == IdentStart \cup {"1"}

RECURSIVE Flatten(_)
\* the pieces, joined
Flatten(pieces) == IF pieces = <<>> THEN <<>> ELSE Head(pieces) \o Flatten(Tail(pieces))

\* the first position from i on whose character is not in S, Len(t) + 1
\* when there is none (a greedy S*)
SkipWhile(t, i, S) ==
  CHOOSE j \in i..(Len(t) + 1) :
    /\ j = Len(t) + 1 \/ t[j] \notin S
    /\ \A k \in i..(j - 1) : t[k] \in S

NoMatch == [end |-> 0, key |-> <<>>]

\* VARIABLE_PATTERN = /\{\{\s*([a-zA-Z_][a-zA-Z0-9_]*)\s*\}\}/ tried at position
\* p of t: the position of the last character it matches and the key it
\* captures, NoMatch when it does not match there
matchAt(t, p) ==
  IF p + 1 <= Len(t) /\ t[p] = "{" /\ t[p + 1] = "{"
  THEN LET k == SkipWhile(t, p + 2, Whitespace) IN
       IF k <= Len(t) /\ t[k] \in IdentStart
       THEN LET e == SkipWhile(t, k + 1, IdentRest)
                w == SkipWhile(t, e, Whitespace)
            IN IF w + 1 <= Len(t) /\ t[w] = "}" /\ t[w + 1] = "}"
               THEN [end |-> w + 1, key |-> SubSeq(t, k, e - 1)]
               ELSE NoMatch
       ELSE NoMatch
  ELSE NoMatch

\* the replacer of replaceVariables that asks variables.get(key) where the
\* source asks variables.has(key)
replacerTruthy(match, key, bindings, fallbackToDefault) ==
  IF key \in DOMAIN bindings /\ bindings[key] # <<>> THEN bindings[key]
  ELSE IF fallbackToDefault THEN match ELSE <<>>

\* the replacer function of replaceVariables
replacer(match, key, bindings, fallbackToDefault) ==
  IF key \in DOMAIN bindings THEN bindings[key]
  ELSE IF fallbackToDefault THEN match ELSE <<>>

RECURSIVE replaceFrom(_, _, _, _)
\* String.prototype.replace with the global pattern, from position i on:
\* the matches are taken from left to right and do not overlap, what the
\* replacer returns is not scanned again
replaceFrom(t, i, bindings, fallbackToDefault) ==
  IF i > Len(t) THEN <<>>
  ELSE LET m == matchAt(t, i) IN
       IF m = NoMatch
       THEN <<t[i]>> \o replaceFrom(t, i + 1, bindings, fallbackToDefault)
       ELSE replacer(SubSeq(t, i, m.end), m.key, bindings, fallbackToDefault)
            \o replaceFrom(t, m.end + 1, bindings, fallbackToDefault)

replaceVariables(t, bindings, fallbackToDefault) ==
  replaceFrom(t, 1, bindings, fallbackToDefault)

\* the bindings: `a` is bound, `e` is bound to the empty string
Bindings == (<<"a">> :> <<"J", "o">>) @@ (<<"e">> :> <<>>)

\* the pieces texts are made of: tokens with and without whitespace, of a
\* bound key, of the key bound to the empty string, of unbound keys
TokenPieces ==
  { <<"{", "{", "a", "}", "}">>,
    <<"{", "{", " ", "a", " ", " ", "}", "}">>,
    <<"{", "{", "e", " ", "}", "}">>,
    <<"{", "{", " ", "b", "}", "}">>,
    <<"{", "{", "a", "1", "}", "}">> }

\* and other text: braces, blanks, a word that is no bound key, a digit
TextPieces == { <<"{">>, <<"}">>, <<" ">>, <<"b", "_">>, <<"1">> }

AppendPiece ==
  /\ Len(text) < MaxPieces
  /\ \E piece \in TokenPieces \cup TextPieces : text' = Append(text, piece)
  /\ output' = <<>>
  /\ source' = "nothing"
  /\ UNCHANGED <<blocks, selectedBlockId, hoveredBlockId, draggedBlockId, dropTargetId,
                 dropPosition, history, isDirty, nextId, calls, uiCalls, trip, last, prev,
                 prevStyles, styleObjects, engine, affordances, settings, assets, released>>

\* replaceVariables(text, variables), as EmailRenderer.processContent calls it
ReplaceVariables ==
  /\ source = "nothing"
  /\ output' = replaceVariables(Flatten(text), Bindings, TRUE)
  /\ source' = "text"
  /\ UNCHANGED <<blocks, selectedBlockId, hoveredBlockId, draggedBlockId, dropTargetId,
                 dropPosition, history, isDirty, nextId, calls, uiCalls, trip, last, prev,
                 prevStyles, styleObjects, engine, affordances, settings, text, assets, released>>

NextVariables ==
  \/ AppendPiece
  \/ ReplaceVariables

SpecVariables == Init /\ [][NextVariables]_vars

\* -------------------------------------------------------------- renderer
\* The HTML the renderer returns is a sequence of tokens: a tag (its
\* attributes left out), an entity, or a character of text.

\* escapeHtml
escapeHtml(t) ==
  [i \in 1..Len(t) |->
     CASE t[i] = "&" -> "&amp;"
       [] t[i] = "<" -> "&lt;"
       [] t[i] = ">" -> "&gt;"
       [] OTHER -> t[i]]

\* new Map(variables.map((v) => [v.key, v.defaultValue])): a later entry of
\* the list replaces an earlier one with the same key
MapOf(vs) ==
  [key \in {vs[i].key : i \in 1..Len(vs)} |->
     vs[CHOOSE i \in 1..Len(vs) :
          vs[i].key = key /\ \A j \in (i + 1)..Len(vs) : vs[j].key # key].defaultValue]

\* config.variables of the editors whose exports are followed
ConfigVariables ==
  << [key |-> <<"a">>, defaultValue |-> <<"J", "o">>],
     [key |-> <<"e">>, defaultValue |-> <<>>] >>

\* the fields of the EmailRenderer the MailBuilder constructor makes, the only
\* place that writes them: the Map of the variables and the email styles it
\* is given
RendererVariables == MapOf(ConfigVariables)
RendererStyles == DEFAULT_EMAIL_STYLES

processContent(content) == replaceVariables(content, RendererVariables, TRUE)

wrapInRow(content) == <<"<tr>", "<td>">> \o content \o <<"</td>", "</tr>">>

\* block.content of a text block
renderText(block) == wrapInRow(processContent(block.content))

\* block.text of a button block (the model keeps it in `content`)
renderButton(block) ==
  wrapInRow(<<"<a>">> \o escapeHtml(processContent(block.content)) \o <<"</a>">>)

RECURSIVE renderBlock(_)
RECURSIVE renderEach(_)
\* blocks.map(renderBlock).join('')
renderEach(bs) ==
  IF bs = <<>> THEN <<>> ELSE renderBlock(Head(bs)) \o renderEach(Tail(bs))

RECURSIVE renderCells(_)
\* block.columns.map(...).join('')
renderCells(columns) ==
  IF columns = <<>> THEN <<>>
  ELSE <<"<td>", "<table>">> \o renderEach(Head(columns).children) \o <<"</table>", "</td>">>
       \o renderCells(Tail(columns))

renderColumns(block) ==
  <<"<tr>", "<td>", "<table>", "<tr>">> \o renderCells(block.columns)
  \o <<"</tr>", "</table>", "</td>", "</tr>">>

\* the switch of renderBlock; a type without a case renders as ''
renderBlock(block) ==
  CASE block.type = "text" -> renderText(block)
    [] block.type = "button" -> renderButton(block)
    [] block.type = "columns" -> renderColumns(block)
    [] OTHER -> <<>>

RECURSIVE joinRows(_)
\* blocks.map(renderBlock).join('\n')
joinRows(bs) ==
  IF bs = <<>> THEN <<>>
  ELSE IF Len(bs) = 1 THEN renderBlock(bs[1])
  ELSE renderBlock(bs[1]) \o <<"\n">> \o joinRows(Tail(bs))

\* createEmailWrapper: the content inside table.email-container
createEmailWrapper(content) ==
  <<"<html>", "<body>", "<center>", "<table>">> \o content
  \o <<"</table>", "</center>", "</body>", "</html>">>

RECURSIVE reverse(_)
reverse(seq) == IF seq = <<>> THEN <<>> ELSE Append(reverse(Tail(seq)), Head(seq))

\* render that walks the blocks from the last to the first
renderBackwards(bs) == createEmailWrapper(joinRows(reverse(bs)))

\* EmailRenderer.render(blocks), includeWrapper left at its default
render(bs) == createEmailWrapper(joinRows(bs))

\* the texts of the blocks of the rendered documents, by block id
Contents ==
  [id \in 1..7 |->
     CASE id = 1 -> <<"{", "{", "a", "}", "}", "<">>
       [] id = 4 -> <<"b", "_">>
       [] id = 5 -> <<"{", "{", " ", "b", "}", "}">>
       [] id = 7 -> <<"{", "{", "e", " ", "}", "}", "1">>
       [] OTHER -> <<>>]

RenderTree ==
  << Block(1, "button", Contents[1], <<>>, <<>>),
     Block(2, "columns", <<>>,
           << Block(3, "column", <<>>, <<>>,
                    << Block(4, "text", Contents[4], <<>>, <<>>),
                       Block(5, "button", Contents[5], <<>>, <<>>) >>),
              Block(6, "column", <<>>, <<>>, <<>>) >>,
           <<>>),
     Block(7, "text", Contents[7], <<>>, <<>>) >>

RenderTrees == {<<>>, RenderTree}
InitRender == Opened(RenderTrees)

\* getHtml(): the document of the store is rendered
Render ==
  /\ uiCalls < MaxUiCalls
  /\ uiCalls' = uiCalls + 1
  /\ output' = render(blocks)
  /\ source' = "blocks"
  /\ last' = Call("render", null, NoIndex, null)
  /\ prev' = state
  /\ prevStyles' = styleObjects
  /\ UNCHANGED <<blocks, selectedBlockId, hoveredBlockId, draggedBlockId, dropTargetId,
                 dropPosition, history, isDirty, nextId, calls, trip>>
  /\ UNCHANGED <<styleObjects, engine, affordances, settings, text, assets, released>>

\* a rendered block is moved, to the top level or into a column
RenderMoveBlock ==
  /\ calls < MaxCalls
  /\ \E id \in Wrappers(blocks), toIndex \in Indices,
        parentId \in {null} \cup ColumnIds(blocks) :
       moveBlock(id, toIndex, parentId)
  /\ UNCHANGED outside

RenderDeleteBlock ==
  /\ calls < MaxCalls
  /\ \E id \in Wrappers(blocks) : deleteBlock(id)
  /\ UNCHANGED outside

NextRender ==
  \/ Render
  \/ RenderMoveBlock
  \/ RenderDeleteBlock

SpecRender == InitRender /\ [][NextRender]_vars

\* ------------------------------------------------- keyboard and block actions
\* KeyboardManager's arrow shortcuts and the move buttons of a block's toolbar
\* (MailBuilder.handleBlockAction); a guard that fails leaves the handler
\* without a store call
selectPreviousBlock ==
  /\ Len(blocks) # 0
  /\ IF selectedBlockId = null
     THEN selectBlock(blocks[Len(blocks)].id)
     ELSE LET currentIndex == findIndex(blocks, selectedBlockId)
          IN currentIndex > 0 /\ selectBlock(blocks[currentIndex].id)

selectNextBlock ==
  /\ Len(blocks) # 0
  /\ IF selectedBlockId = null
     THEN selectBlock(blocks[1].id)
     ELSE LET currentIndex == findIndex(blocks, selectedBlockId)
          IN currentIndex < Len(blocks) - 1 /\ selectBlock(blocks[currentIndex + 2].id)

moveBlockUp ==
  /\ selectedBlockId # null
  /\ LET currentIndex == findIndex(blocks, selectedBlockId)
     IN currentIndex > 0 /\ moveBlock(selectedBlockId, currentIndex - 1, null)

moveBlockDown ==
  /\ selectedBlockId # null
  /\ LET currentIndex == findIndex(blocks, selectedBlockId)
     IN currentIndex < Len(blocks) - 1 /\ moveBlock(selectedBlockId, currentIndex + 2, null)

handleBlockAction(blockId, action) ==
  LET index == findIndex(blocks, blockId)
  IN CASE action = "move-up" -> index > 0 /\ moveBlock(blockId, index - 1, null)
       [] action = "move-down" ->
            index < Len(blocks) - 1 /\ moveBlock(blockId, index + 2, null)

KeyTree ==
  << createButtonBlock(1),
     Block(2, "columns", 0,
           << Block(3, "column", 0, <<>>, <<createTextBlock(4), createButtonBlock(5)>>),
              Block(6, "column", 0, <<>>, <<>>) >>,
           <<>>),
     createTextBlock(7) >>

InitKeys == Opened({KeyTree})

ArrowUp == uiCalls < MaxUiCalls /\ selectPreviousBlock /\ UNCHANGED outside
ArrowDown == uiCalls < MaxUiCalls /\ selectNextBlock /\ UNCHANGED outside
CtrlArrowUp == calls < MaxCalls /\ moveBlockUp /\ UNCHANGED outside
CtrlArrowDown == calls < MaxCalls /\ moveBlockDown /\ UNCHANGED outside

BlockAction ==
  /\ calls < MaxCalls
  /\ \E blockId \in Wrappers(blocks), action \in {"move-up", "move-down"} :
       handleBlockAction(blockId, action)
  /\ UNCHANGED outside

NextKeys ==
  \/ SelectBlock
  \/ ArrowUp
  \/ ArrowDown
  \/ CtrlArrowUp
  \/ CtrlArrowDown
  \/ BlockAction

SpecKeys == InitKeys /\ [][NextKeys]_vars

\* ------------------------------------------------------------- asset upload
\* MailBuilder.handleImageUpload, started by the upload button the property
\* panel shows for the selected image or logo block
createImageBlock(id) == Block(id, "image", 0, <<>>, <<>>) @@ [src |-> 0]
createLogoBlock(id) == Block(id, "logo", 0, <<>>, <<>>) @@ [src |-> 0]

\* the block types whose handler puts an upload button on the panel
UploadTypes == {"image", "logo"}
\* how `url` is obtained: config.onAssetUpload(file), storageProvider.upload(file)
\* or URL.createObjectURL(file)
UploadWays == {"onAssetUpload", "storageProvider", "objectURL"}
\* the urls an upload gives
Urls == {1, 2}

UploadTree ==
  << createImageBlock(1),
     Block(2, "columns", 0,
           << Block(3, "column", 0, <<>>, <<createLogoBlock(4)>>),
              Block(5, "column", 0, <<>>, <<>>) >>,
           <<>>),
     createTextBlock(6) >>

InitUpload == OpenedWith({UploadTree}, UploadWays, DEFAULT_VARIABLES)

\* an upload under way: the promise input.onchange awaits and how it settled
Upload(blockId, settled, url) == [blockId |-> blockId, settled |-> settled, url |-> url]

\* what `catch (error) { console.error(...) }` leaves of the call
uploadFailed(blockId) ==
  /\ last' = Call("uploadFailed", blockId, NoIndex, null)
  /\ prev' = state
  /\ prevStyles' = styleObjects
  /\ UNCHANGED <<blocks, selectedBlockId, hoveredBlockId, draggedBlockId, dropTargetId,
                 dropPosition, history, isDirty, nextId, calls, uiCalls, trip>>

\* the statements of input.onchange after the url is there
uploaded(blockId, url) == updateBlock(blockId, [src |-> url])

\* input.onchange whose catch block writes the failure into the block
onchangeResumesClearing(u) ==
  IF u.settled = "fulfilled" THEN uploaded(u.blockId, u.url) ELSE uploaded(u.blockId, 0)

\* input.onchange after its await: the rest of the try block, or the catch block
onchangeResumes(u) ==
  IF u.settled = "fulfilled" THEN uploaded(u.blockId, u.url) ELSE uploadFailed(u.blockId)

\* the panel's upload button is clicked and a file is chosen: input.onchange
\* runs up to its await; without callback and provider there is nothing to
\* await and the block is updated at once
UploadStart ==
  /\ calls + Cardinality(uploads) < MaxCalls
  /\ selectedBlockId # null
  /\ LET block == findBlockById(blocks, selectedBlockId)
     IN /\ block # undefined
        /\ block.type \in UploadTypes
        /\ IF assetUpload = "objectURL"
           THEN /\ \E url \in Urls : uploaded(block.id, url)
                /\ UNCHANGED uploads
           ELSE /\ Upload(block.id, "pending", 0) \notin uploads
                /\ uploads' = uploads \cup {Upload(block.id, "pending", 0)}
                /\ UNCHANGED <<blocks, selectedBlockId, hoveredBlockId, draggedBlockId,
                               dropTargetId, dropPosition, history, isDirty, nextId,
                               calls, uiCalls, trip, last, prev, prevStyles>>
  /\ UNCHANGED <<styleObjects, engine, affordances, settings, conversion, assetUpload,
                 released>>

\* the promise of config.onAssetUpload(file) or storageProvider.upload(file)
\* settles: fulfilled with a url, or rejected
UploadSettle ==
  /\ \E u \in uploads :
       /\ u.settled = "pending"
       /\ \E settled \in {Upload(u.blockId, "rejected", 0)}
                          \cup {Upload(u.blockId, "fulfilled", url) : url \in Urls} :
            /\ settled \notin uploads
            /\ uploads' = (uploads \ {u}) \cup {settled}
  /\ UNCHANGED <<blocks, selectedBlockId, hoveredBlockId, draggedBlockId, dropTargetId,
                 dropPosition, history, isDirty, nextId, calls, uiCalls, trip, last, prev,
                 prevStyles, styleObjects, engine, affordances, settings, conversion,
                 assetUpload, released>>

\* input.onchange resumes after its await
UploadResume ==
  /\ \E u \in uploads :
       /\ u.settled # "pending"
       /\ uploads' = uploads \ {u}
       /\ onchangeResumes(u)
  /\ UNCHANGED <<styleObjects, engine, affordances, settings, conversion, assetUpload,
                 released>>

NextUpload ==
  \/ SelectBlock
  \/ UploadStart
  \/ UploadSettle
  \/ UploadResume
  \/ DocDeleteBlock

SpecUpload == InitUpload /\ [][NextUpload]_vars

\* ------------------------------------------------------------------- export
\* getHtml / exportHtml / showPreview of an editor made with config.variables,
\* after documents are loaded and variables and styles are set
ExportVariableLists ==
  { <<>>,
    <<[key |-> <<"b">>, defaultValue |-> <<"T">>]>>,
    <<[key |-> <<"a">>, defaultValue |-> <<"K">>], [key |-> <<"b">>, defaultValue |-> <<"T">>]>> }

ExportDatas ==
  {[blocks |-> RenderTree, styles |-> styles, variables |-> vs] :
     styles \in {DEFAULT_EMAIL_STYLES, [body |-> 1, container |-> 1]},
     vs \in {ConfigVariables} \cup ExportVariableLists}

InitExport == OpenedWith({RenderTree}, {"objectURL"}, ConfigVariables)

ExportLoadData ==
  /\ calls < MaxCalls
  /\ \E data \in ExportDatas : loadData(data)
  /\ UNCHANGED beside

ExportSetVariables ==
  /\ uiCalls < MaxUiCalls
  /\ \E vs \in ExportVariableLists : setVariables(vs)
  /\ UNCHANGED beside

NextExport ==
  \/ Render
  \/ ExportLoadData
  \/ ExportSetVariables
  \/ SetEmailStyles
  \/ RenderDeleteBlock

SpecExport == InitExport /\ [][NextExport]_vars

\* ---------------------------------------------------------- the drag engine
\* a column of bs holds a columns block
ColumnsInColumn(bs) ==
  \E i \in 1..Len(bs) :
    /\ bs[i].type = "columns"
    /\ \E j \in 1..Len(bs[i].columns) :
         \E k \in 1..Len(bs[i].columns[j].children) :
           bs[i].columns[j].children[k].type = "columns"

\* The rendered canvas, in units of half a leaf block: a leaf block is two
\* units high; a columns block is a table row whose cells have a padding of
\* one unit around the column drop-zone; an empty drop-zone holds a
\* placeholder. Cell j spans the horizontal units 2j-1..2j; unit 0 is left
\* of every drop-zone.
LeafHeight == 2
CellPadding == 1
PlaceholderHeight == 2

RECURSIVE Height(_)
RECURSIVE StackHeight(_)
\* the height of blocks stacked one under the other
StackHeight(bs) ==
  IF bs = <<>> THEN 0 ELSE Height(Head(bs)) + StackHeight(Tail(bs))

\* the height of a column drop-zone
ZoneHeight(column) ==
  IF column.children = <<>> THEN PlaceholderHeight ELSE StackHeight(column.children)

RECURSIVE TallestZone(_)
TallestZone(columns) ==
  IF columns = <<>> THEN 0
  ELSE Max(ZoneHeight(Head(columns)), TallestZone(Tail(columns)))

\* the height of a block wrapper
Height(block) ==
  IF block.type = "columns"
  THEN CellPadding + TallestZone(block.columns) + CellPadding
  ELSE LeafHeight

\* getBoundingClientRect of the i-th wrapper of a stack that starts at top
BlockRect(bs, i, top, parentId) ==
  LET y == top + StackHeight(SubSeq(bs, 1, i - 1))
  IN [id |-> bs[i].id, index |-> i - 1,
      top |-> y, bottom |-> y + Height(bs[i]), height |-> Height(bs[i]),
      parentId |-> parentId]

\* the drop-zones of one top-level block whose wrapper starts at top
ZoneRects(block, top) ==
  [j \in 1..Len(block.columns) |->
     LET column == block.columns[j] IN
     [id |-> column.id, parentBlockId |-> block.id,
      left |-> 2 * j - 1, right |-> 2 * j,
      top |-> top + CellPadding,
      bottom |-> top + CellPadding + ZoneHeight(column),
      childRects |-> [k \in 1..Len(column.children) |->
                        BlockRect(column.children, k, top + CellPadding, column.id)]]]

RECURSIVE ZoneRectsFrom(_, _)
\* the drop-zones of the blocks i..Len(bs), in document order
ZoneRectsFrom(bs, i) ==
  IF i > Len(bs) THEN <<>>
  ELSE ZoneRects(bs[i], StackHeight(SubSeq(bs, 1, i - 1))) \o ZoneRectsFrom(bs, i + 1)

\* cacheBlockPositions, on the canvas rendered from bs
cacheBlockRects(bs) == [i \in 1..Len(bs) |-> BlockRect(bs, i, 0, null)]
cacheColumnRects(bs) == ZoneRectsFrom(bs, 1)

\* the height of the canvas
CanvasHeight(bs) == StackHeight(bs)

\* data-index of the first wrapper that carries data-block-id = id:
\* the position at the top level, or among the children of its column
dataIndex(bs, id) ==
  IF id \in IdsOf(bs) THEN findIndex(bs, id)
  ELSE LET columns == UNION { {bs[i].columns[j] : j \in 1..Len(bs[i].columns)} :
                              i \in 1..Len(bs) }
           holders == {c \in columns : id \in IdsOf(c.children)}
       IN IF holders = {} THEN NoIndex
          ELSE findIndex((CHOOSE c \in holders : TRUE).children, id)

\* index of the first element of seq that satisfies P, 0 when there is none
FirstWhere(seq, P(_)) ==
  LET hits == {i \in 1..Len(seq) : P(seq[i])}
  IN IF hits = {} THEN 0 ELSE CHOOSE i \in hits : \A j \in hits : i <= j

Target(blockId, index, position, parentId) ==
  [blockId |-> blockId, index |-> index, position |-> position, parentId |-> parentId]

\* the midpoint rule with the comparison turned round
HalfTurned(rect, y) == IF y > rect.top + rect.height \div 2 THEN "before" ELSE "after"

\* 'before' over the upper half of a rect, 'after' over the lower half
Half(rect, y) == IF y < rect.top + rect.height \div 2 THEN "before" ELSE "after"

findColumnTarget(x, y) ==
  LET hit == FirstWhere(columnRects,
                        LAMBDA c : x >= c.left /\ x <= c.right /\ y >= c.top /\ y <= c.bottom)
  IN IF hit = 0 THEN NoTarget
     ELSE LET column == columnRects[hit]
              k == FirstWhere(column.childRects,
                              LAMBDA r : dragData.blockId # r.id /\ y < r.bottom)
          IN IF k # 0
             THEN LET childRect == column.childRects[k]
                  IN Target(childRect.id, childRect.index, Half(childRect, y), column.id)
             ELSE Target(column.id, Len(column.childRects), "inside", column.id)

\* updateDropTarget that asks the top-level rects before the column zones
updateDropTargetTopLevelFirst(x, y) ==
  LET columnTarget == findColumnTarget(x, y)
      i == FirstWhere(blockRects, LAMBDA r : dragData.blockId # r.id /\ y < r.bottom)
  IN IF i # 0
     THEN Target(blockRects[i].id, blockRects[i].index, Half(blockRects[i], y), null)
     ELSE columnTarget

\* updateDropTarget(x, y): the value it leaves in currentTarget
updateDropTarget(x, y) ==
  LET columnTarget == findColumnTarget(x, y)
      i == FirstWhere(blockRects, LAMBDA r : dragData.blockId # r.id /\ y < r.bottom)
      lastRect == blockRects[Len(blockRects)]
  IN IF columnTarget # NoTarget THEN columnTarget
     ELSE IF Len(blockRects) = 0 THEN NoTarget
     ELSE IF i # 0
       THEN Target(blockRects[i].id, blockRects[i].index, Half(blockRects[i], y), null)
     ELSE IF dragData.blockId # lastRect.id
       THEN Target(lastRect.id, lastRect.index, "after", null)
     ELSE NoTarget

\* cleanup that leaves a pending frame request alone
cleanupKeepsFrame ==
  /\ dragData' = NoDrag
  /\ currentTarget' = NoTarget
  /\ blockRects' = <<>>
  /\ columnRects' = <<>>
  /\ UNCHANGED <<rafId, frameRequests>>

\* cleanup(): the fields of the engine; a pending frame request is cancelled
cleanup ==
  /\ dragData' = NoDrag
  /\ currentTarget' = NoTarget
  /\ blockRects' = <<>>
  /\ columnRects' = <<>>
  /\ rafId' = FALSE
  /\ frameRequests' = IF rafId THEN frameRequests - 1 ELSE frameRequests

\* the engine makes no store call
NoStoreCall ==
  UNCHANGED <<blocks, selectedBlockId, hoveredBlockId, draggedBlockId, dropTargetId,
              dropPosition, history, isDirty, nextId, calls, uiCalls, trip, last, prev,
              prevStyles>>

\* startDrag(data, event): data.sourceIndex is read off the dragged wrapper
startDrag(data) ==
  /\ dragData' = IF data.blockId # null /\ dataIndex(blocks, data.blockId) # NoIndex
                 THEN [data EXCEPT !.sourceIndex = dataIndex(blocks, data.blockId)]
                 ELSE data
  /\ blockRects' = cacheBlockRects(blocks)
  /\ columnRects' = cacheColumnRects(blocks)
  /\ UNCHANGED <<currentTarget, rafId, frameRequests, lastX, lastY>>

\* handleDragOver: the pointer is recorded; a frame is requested unless one
\* is pending
handleDragOver(x, y) ==
  /\ lastX' = x
  /\ lastY' = y
  /\ IF rafId
     THEN UNCHANGED <<rafId, frameRequests>>
     ELSE rafId' = TRUE /\ frameRequests' = frameRequests + 1
  /\ UNCHANGED <<dragData, currentTarget, blockRects, columnRects>>

\* the callback handed to requestAnimationFrame
frame ==
  /\ rafId' = FALSE
  /\ frameRequests' = frameRequests - 1
  /\ currentTarget' = updateDropTarget(lastX, lastY)
  /\ UNCHANGED <<dragData, blockRects, columnRects, lastX, lastY>>

\* handleColumnDrop without the test of the payload's block type
handleColumnDropAnyType ==
  LET parentId == currentTarget.parentId
      targetIndex == currentTarget.index
                     + (IF currentTarget.position = "after" THEN 1 ELSE 0)
  IN IF dragData.type = "new-block"
     THEN addBlock(dragData.blockType, targetIndex, parentId)
     ELSE moveBlock(dragData.blockId, targetIndex, parentId)

handleColumnDrop ==
  LET parentId == currentTarget.parentId
      targetIndex == currentTarget.index
                     + (IF currentTarget.position = "after" THEN 1 ELSE 0)
  IN IF dragData.type = "new-block"
     THEN IF dragData.blockType = "columns"
          THEN NoStoreCall
          ELSE addBlock(dragData.blockType, targetIndex, parentId)
     ELSE moveBlock(dragData.blockId, targetIndex, parentId)

\* handleDrop without the removal compensation of an existing block
handleDropUncompensated ==
  /\ LET index == currentTarget.index
                  + (IF currentTarget.position = "after" THEN 1 ELSE 0)
         sourceIndex == IF dragData.sourceIndex = NoIndex THEN -1 ELSE dragData.sourceIndex
     IN IF currentTarget.parentId # null THEN handleColumnDrop
        ELSE IF Len(blockRects) = 0
          THEN IF dragData.type = "new-block"
               THEN addBlock(dragData.blockType, 0, null)
               ELSE NoStoreCall
        ELSE IF currentTarget = NoTarget THEN NoStoreCall
        ELSE IF dragData.type = "existing-block"
          THEN IF \/ sourceIndex = index
                  \/ (sourceIndex = index - 1 /\ currentTarget.position = "after")
               THEN NoStoreCall
               ELSE moveBlock(dragData.blockId, index, null)
        ELSE addBlock(dragData.blockType, index, null)
  /\ cleanup

handleDrop ==
  /\ LET index == currentTarget.index
                  + (IF currentTarget.position = "after" THEN 1 ELSE 0)
         sourceIndex == IF dragData.sourceIndex = NoIndex THEN -1 ELSE dragData.sourceIndex
         targetIndex == IF sourceIndex >= 0 /\ sourceIndex < index THEN index - 1 ELSE index
     IN IF currentTarget.parentId # null THEN handleColumnDrop
        ELSE IF Len(blockRects) = 0
          THEN IF dragData.type = "new-block"
               THEN addBlock(dragData.blockType, 0, null)
               ELSE NoStoreCall
        ELSE IF currentTarget = NoTarget THEN NoStoreCall
        ELSE IF dragData.type = "existing-block"
          THEN IF \/ sourceIndex = index
                  \/ (sourceIndex = index - 1 /\ currentTarget.position = "after")
               THEN NoStoreCall
               ELSE moveBlock(dragData.blockId, targetIndex, null)
        ELSE addBlock(dragData.blockType, index, null)
  /\ cleanup

\* the document the drags are made on
DragTree ==
  << createTextBlock(1),
     Block(2, "columns", 0,
           << Block(3, "column", 0, <<>>, <<createTextBlock(4), createButtonBlock(5)>>),
              Block(6, "column", 0, <<>>, <<>>) >>,
           <<>>),
     createTextBlock(7) >>

DragTrees == {<<>>, DragTree}
InitDrag == Opened(DragTrees)

\* what the host hands to startDrag: a sidebar entry or a rendered wrapper
Payloads ==
  { [type |-> "new-block", blockType |-> t, blockId |-> null, sourceIndex |-> NoIndex] :
      t \in NewTypes }
  \cup
  { [type |-> "existing-block", blockType |-> none, blockId |-> id, sourceIndex |-> NoIndex] :
      id \in AllIds(blocks) \ ColumnIds(blocks) }

\* pointer positions over the canvas
PointerXs == {0} \cup {2 * j - 1 : j \in 1..2}
PointerYs == 0..CanvasHeight(blocks)

StartDrag ==
  /\ dragData = NoDrag
  /\ gestures < MaxGestures
  /\ ~ColumnsInColumn(blocks)
  /\ \E data \in Payloads :
       /\ data.type = "new-block" => nextId + idsOf(data.blockType) - 1 <= MaxId
       /\ startDrag(data)
  /\ gestures' = gestures + 1
  /\ released' = NoRelease
  /\ NoStoreCall
  /\ UNCHANGED <<styleObjects, settings, conversion, assets, affordances>>

\* dragover, delivered while the listeners of startDrag are attached; a
\* pending frame is not requested again
DragOver ==
  /\ dragData # NoDrag
  /\ \E x \in PointerXs, y \in PointerYs : handleDragOver(x, y)
  /\ NoStoreCall
  /\ UNCHANGED <<styleObjects, settings, conversion, assets, gestures, affordances, released>>

\* the browser runs a frame callback that handleDragOver requested
Frame ==
  /\ frameRequests > 0
  /\ frame
  /\ NoStoreCall
  /\ UNCHANGED <<styleObjects, settings, conversion, assets, gestures, affordances, released>>

Drop ==
  /\ dragData # NoDrag
  /\ released' = [dragData |-> dragData, currentTarget |-> currentTarget,
                  rafId |-> rafId, state |-> state]
  /\ handleDrop
  /\ UNCHANGED <<styleObjects, settings, conversion, assets, gestures, lastX, lastY, affordances>>

\* dragend without a drop (the drag was cancelled)
DragEnd ==
  /\ dragData # NoDrag
  /\ cleanup
  /\ NoStoreCall
  /\ UNCHANGED <<styleObjects, settings, conversion, assets, gestures, lastX, lastY, affordances, released>>

NextDrag ==
  \/ StartDrag
  \/ DragOver
  \/ Frame
  \/ Drop
  \/ DragEnd

\* SpecDrag follows the fields of the engine and the store; what a drag shows
\* on the page is followed by SpecCanvas
SpecDrag == InitDrag /\ [][NextDrag]_vars

\* the drags that end without a drop: the document stays as it is, and the
\* target is resolved frame by frame
NextTarget ==
  \/ StartDrag
  \/ DragOver
  \/ Frame
  \/ DragEnd

SpecTarget == InitDrag /\ [][NextTarget]_vars

\* ------------------------------------------------- what a drag shows
\* the elements that carry drag classes: a block wrapper and a column
\* drop-zone are named by the id they render, and
canvasEl == 0
emptyZoneEl == -1

Class(el, class) == [el |-> el, class |-> class]

\* the payload MailBuilder's dragstart listener of wrapper id hands to startDrag
ExistingBlock(id) ==
  [type |-> "existing-block", blockType |-> none, blockId |-> id, sourceIndex |-> NoIndex]

\* the payload of the dragstart listener of a sidebar entry
NewBlock(blockType) ==
  [type |-> "new-block", blockType |-> blockType, blockId |-> null, sourceIndex |-> NoIndex]

\* the wrappers a dragstart dispatched at wrapper id passes, innermost first:
\* the event bubbles, no listener stops it, and the wrapper of a block in a
\* column lies inside the wrapper of its columns block
wrapperPath(bs, id) ==
  IF id \in IdsOf(bs) THEN <<id>>
  ELSE LET i == CHOOSE i \in 1..Len(bs) :
                  \E j \in 1..Len(bs[i].columns) : id \in IdsOf(bs[i].columns[j].children)
       IN <<id, bs[i].id>>

\* the ghost and the classes on the page
shown == [ghostElement |-> ghostElement, ghosts |-> ghosts, classes |-> classes]

\* startDrag(data): the dragged wrapper is marked, createGhostElement appends
\* a new ghost and stores it in the field, the canvas is marked
startDragShows(d, data) ==
  [ghostElement |-> TRUE,
   ghosts |-> d.ghosts + 1,
   classes |-> d.classes
               \cup (IF data.blockId # null /\ data.blockId \in Wrappers(blocks)
                     THEN {Class(data.blockId, "is-dragging")} ELSE {})
               \cup {Class(canvasEl, "canvas-drop-active")}]

RECURSIVE dragstart(_, _)
\* the dragstart listeners of the wrappers of path, run one after the other
dragstart(d, path) ==
  IF path = <<>> THEN d
  ELSE dragstart(startDragShows(d, ExistingBlock(Head(path))), Tail(path))

clearAllShifts(cs) == {c \in cs : c.class \notin {"shift-up", "shift-down"}}

\* the shift classes animateBlockShift adds once clearAllShifts has run
animateBlockShift(target, draggedIndex) ==
  LET targetIndex == target.index
      isMovingDown == draggedIndex >= 0 /\ draggedIndex < targetIndex
      isMovingUp == draggedIndex >= 0 /\ draggedIndex > targetIndex
      others == {i \in 1..Len(blockRects) : blockRects[i].id # dragData.blockId}
      shift(rect) ==
        IF target.position = "before"
        THEN IF rect.index >= targetIndex
             THEN IF isMovingDown /\ rect.index <= draggedIndex THEN "shift-up"
                  ELSE IF ~isMovingDown THEN "shift-down" ELSE none
             ELSE none
        ELSE IF rect.index > targetIndex
             THEN IF isMovingUp /\ rect.index >= draggedIndex THEN none
                  ELSE IF isMovingDown /\ rect.index <= draggedIndex THEN "shift-up"
                  ELSE IF ~isMovingDown /\ ~isMovingUp THEN "shift-down" ELSE none
             ELSE none
  IN {Class(blockRects[i].id, shift(blockRects[i])) :
        i \in {k \in others : shift(blockRects[k]) # none}}

\* updateDropTarget(x, y): the classes it leaves on the page
updateDropTargetClasses(x, y) ==
  LET target == updateDropTarget(x, y)
      cleared == clearAllShifts(classes)
      noZones == {c \in cleared : c.class # "drag-over" \/ c.el = emptyZoneEl}
      noEmpty == noZones \ {Class(emptyZoneEl, "drag-over")}
      draggedIndex == IF dragData.sourceIndex = NoIndex THEN -1 ELSE dragData.sourceIndex
  IN IF findColumnTarget(x, y) # NoTarget
     THEN cleared \cup {Class(target.parentId, "drag-over")}
     ELSE IF Len(blockRects) = 0
       THEN noZones \cup (IF blocks = <<>> THEN {Class(emptyZoneEl, "drag-over")} ELSE {})
     ELSE IF target = NoTarget THEN noEmpty
     ELSE noEmpty \cup animateBlockShift(target, draggedIndex)

\* showDropIndicator: the target's wrapper gets an indicator line on the
\* side of the position, unless it has one
updateDropTargetIndicators(x, y) ==
  LET target == updateDropTarget(x, y)
  IN IF findColumnTarget(x, y) # NoTarget \/ target = NoTarget THEN indicators
     ELSE indicators \cup {[el |-> target.blockId,
                             side |-> IF target.position = "before" THEN "top" ELSE "bottom"]}

\* cleanup(): the ghost held by the field is removed, the drag classes and
\* every indicator line are taken off the page
cleanupShown ==
  /\ ghostElement' = FALSE
  /\ ghosts' = IF ghostElement THEN ghosts - 1 ELSE ghosts
  /\ classes' = {c \in clearAllShifts(classes) :
                   c.class \notin {"is-dragging", "canvas-drop-active", "drag-over"}}
  /\ indicators' = {}

\* dragstart on a sidebar entry
TemplateDragStart ==
  /\ dragData = NoDrag
  /\ gestures < MaxGestures
  /\ \E t \in NewTypes :
       /\ startDrag(NewBlock(t))
       /\ ghostElement' = startDragShows(shown, NewBlock(t)).ghostElement
       /\ ghosts' = startDragShows(shown, NewBlock(t)).ghosts
       /\ classes' = startDragShows(shown, NewBlock(t)).classes
  /\ gestures' = gestures + 1
  /\ NoStoreCall
  /\ UNCHANGED <<styleObjects, settings, conversion, assets, indicators, released>>

\* dragstart on a rendered wrapper: the listener of every wrapper on the
\* event's path calls startDrag, so the engine keeps the payload of the
\* outermost one
BlockDragStart ==
  /\ dragData = NoDrag
  /\ gestures < MaxGestures
  /\ \E id \in Wrappers(blocks) :
       LET path == wrapperPath(blocks, id) IN
       /\ startDrag(ExistingBlock(path[Len(path)]))
       /\ ghostElement' = dragstart(shown, path).ghostElement
       /\ ghosts' = dragstart(shown, path).ghosts
       /\ classes' = dragstart(shown, path).classes
  /\ gestures' = gestures + 1
  /\ NoStoreCall
  /\ UNCHANGED <<styleObjects, settings, conversion, assets, indicators, released>>

\* the pointer positions of the drags followed on the page: the top, the
\* middle and the bottom of the canvas, beside and over the first column
CanvasXs == {0, 1}
CanvasYs == {0, CanvasHeight(blocks) \div 2, CanvasHeight(blocks)}

CanvasDragOver ==
  /\ dragData # NoDrag
  /\ \E x \in CanvasXs, y \in CanvasYs : handleDragOver(x, y)
  /\ NoStoreCall
  /\ UNCHANGED <<styleObjects, settings, conversion, assets, gestures, affordances, released>>

CanvasFrame ==
  /\ frameRequests > 0
  /\ frame
  /\ classes' = updateDropTargetClasses(lastX, lastY)
  /\ indicators' = updateDropTargetIndicators(lastX, lastY)
  /\ NoStoreCall
  /\ UNCHANGED <<styleObjects, settings, conversion, assets, gestures, ghostElement, ghosts, released>>

\* dragend without a drop
CanvasDragEnd ==
  /\ dragData # NoDrag
  /\ cleanup
  /\ cleanupShown
  /\ NoStoreCall
  /\ UNCHANGED <<styleObjects, settings, conversion, assets, gestures, lastX, lastY, released>>

NextCanvas ==
  \/ TemplateDragStart
  \/ BlockDragStart
  \/ CanvasDragOver
  \/ CanvasFrame
  \/ CanvasDragEnd

SpecCanvas == InitDrag /\ [][NextCanvas]_vars

\* ------------------------------------------------------- claim vocabulary
KeyedOps == {"updateBlock", "deleteBlock", "moveBlock", "duplicateBlock"}

\* the last call was keyed by an id that its tree does not hold
LookupMiss == last.op \in KeyedOps /\ last.id \notin AllIds(prev.blocks)

\* the last call was keyed by an id that its tree holds
LookupHit == last.op \in KeyedOps /\ last.id \in AllIds(prev.blocks)

\* the last call was a structural mutation that found its target
Applied == last.op \in {"setBlocks", "addBlock"} \/ LookupHit

IdsOfSeq(bs) == [i \in 1..Len(bs) |-> bs[i].id]

\* number of blocks, columns and column children that carry id
RECURSIVE CountId(_, _)
CountId(bs, id) ==
  IF bs = <<>> THEN 0
  ELSE LET block == Head(bs)
           inColumns[j \in 0..Len(block.columns)] ==
             IF j = 0 THEN 0
             ELSE inColumns[j - 1]
                  + (IF block.columns[j].id = id THEN 1 ELSE 0)
                  + CountId(block.columns[j].children, id)
       IN (IF block.id = id THEN 1 ELSE 0)
          + (IF block.type = "columns" THEN inColumns[Len(block.columns)] ELSE 0)
          + CountId(Tail(bs), id)

\* the sequences of the tree: the top level, every columns list and every
\* column's children
SequencesOf(bs) ==
  {bs}
  \cup UNION { IF bs[i].type = "columns"
               THEN {bs[i].columns}
                    \cup { bs[i].columns[j].children : j \in 1..Len(bs[i].columns) }
               ELSE {}
               : i \in 1..Len(bs) }

\* ------------------------------------------------------------------ claims

\* C1 - History round-trip: after N <= 50 structural mutation calls on a
\* store whose history was empty, N calls of undo give back the tree the run
\* started from and N calls of redo after that give back the tree the run
\* ended with.
HistoryRoundTrip ==
  (trip.n >= 0 /\ trip.n <= MAX_HISTORY_LENGTH /\ trip.undos = trip.n) =>
    /\ trip.redos = 0 => blocks = initialState.blocks
    /\ trip.redos = trip.n => blocks = trip.final

HistoryRoundTripWitness ==
  /\ trip.n >= 2
  /\ trip.undos = trip.n
  /\ trip.redos = trip.n
  /\ blocks # initialState.blocks
  /\ history.past[2] # blocks

\* C2 - History bound: past never holds more than 50 snapshots; a mutation
\* applied while 50 are held drops the oldest one and keeps the rest in
\* order; after a run of 51 mutations from the fresh store no number of undos
\* brings back the tree the run started from (no mutation of SpecDeep builds
\* that tree again, so it can only come out of the history).
HistoryBound ==
  /\ Len(history.past) <= MAX_HISTORY_LENGTH
  /\ (Applied /\ Len(prev.history.past) = MAX_HISTORY_LENGTH) =>
       history.past = Append(Tail(prev.history.past), prev.blocks)
  /\ (trip.n = MAX_HISTORY_LENGTH + 1 /\ trip.redos = 0) =>
       blocks # initialState.blocks

HistoryBoundWitness ==
  /\ trip.n = MAX_HISTORY_LENGTH + 1
  /\ trip.undos = trip.n
  /\ last.op = "undo"
  /\ prev = state

\* C3 - History discipline: after a structural mutation that found its
\* target, the newest past entry is the tree the call started from and the
\* future is empty.
HistoryDiscipline ==
  Applied =>
    /\ Len(history.past) > 0
    /\ history.past[Len(history.past)] = prev.blocks
    /\ history.future = <<>>

HistoryDisciplineWitness ==
  /\ Applied
  /\ prev.history.future # <<>>
  /\ blocks # prev.blocks

\* C4 - Undo and redo are mirror moves: undo makes the newest past entry the
\* live tree and puts the tree it replaced at the front of future, redo does
\* the reverse, undo followed by redo restores blocks, past and future, and
\* both change nothing when their stack is empty.
UndoRedoMirror ==
  /\ (last.op = "undo" /\ Len(prev.history.past) > 0) =>
       /\ blocks = prev.history.past[Len(prev.history.past)]
       /\ history.past = SubSeq(prev.history.past, 1, Len(prev.history.past) - 1)
       /\ history.future = <<prev.blocks>> \o prev.history.future
       /\ redo(state).blocks = prev.blocks
       /\ redo(state).history = prev.history
  /\ (last.op = "redo" /\ Len(prev.history.future) > 0) =>
       /\ blocks = prev.history.future[1]
       /\ history.future = Tail(prev.history.future)
       /\ history.past = Append(prev.history.past, prev.blocks)
       /\ undo(state).blocks = prev.blocks
       /\ undo(state).history = prev.history
  /\ (last.op = "undo" /\ Len(prev.history.past) = 0) => state = prev
  /\ (last.op = "redo" /\ Len(prev.history.future) = 0) => state = prev

UndoRedoMirrorWitness ==
  /\ last.op = "redo"
  /\ Len(prev.history.future) = 2
  /\ Len(prev.history.past) = 0
  /\ prev.history.future[1] # prev.history.future[2]

\* C5 - Lookup miss is atomic: a keyed call with an id that is not in the
\* tree leaves blocks, selectedBlockId, history.past, history.future and
\* isDirty as they were.
LookupMissAtomic == LookupMiss => state = prev

\* C6 - Lookup miss never edits the tree: a keyed call with an id that is not
\* in the tree leaves blocks equal to its previous value.
LookupMissKeepsTree == LookupMiss => blocks = prev.blocks

LookupMissKeepsTreeWitness ==
  /\ LookupMiss
  /\ last.op = "deleteBlock"
  /\ blocks = SampleTree

\* C7 - moveBlock preserves identity: after moveBlock on an id of the tree,
\* with any toIndex and parentColumnId, the tree holds that id exactly once
\* with its fields unchanged and still holds every other id it held.
MovePreservesIdentity ==
  (last.op = "moveBlock" /\ LookupHit) =>
    /\ CountId(blocks, last.id) = 1
    /\ findBlockById(blocks, last.id) = findBlockById(prev.blocks, last.id)
    /\ AllIds(prev.blocks) \subseteq AllIds(blocks)

\* C8 - Top-level move: moveBlock(id, k) of a top-level block with
\* 0 <= k <= length-1 and no parent puts the block at index k, keeps the
\* other top-level blocks in their order, and with k the current index keeps
\* the top-level order as it was.
TopLevelMove ==
  (/\ last.op = "moveBlock"
   /\ last.parentId = null
   /\ findIndex(prev.blocks, last.id) >= 0
   /\ last.index >= 0
   /\ last.index <= Len(prev.blocks) - 1) =>
    /\ Len(blocks) = Len(prev.blocks)
    /\ blocks[last.index + 1].id = last.id
    /\ SelectSeq(IdsOfSeq(blocks), LAMBDA i : i # last.id)
         = SelectSeq(IdsOfSeq(prev.blocks), LAMBDA i : i # last.id)
    /\ (last.index = findIndex(prev.blocks, last.id)) =>
         IdsOfSeq(blocks) = IdsOfSeq(prev.blocks)

TopLevelMoveWitness ==
  /\ last.op = "moveBlock"
  /\ last.parentId = null
  /\ Len(prev.blocks) >= 2
  /\ findIndex(prev.blocks, last.id) = 0
  /\ last.index = 1
  /\ blocks[2].id = last.id

\* C9 - duplicateBlock placement: for an id of the tree, top-level or
\* nested, the clone sits directly after the original in the sequence that
\* holds the original, every other block stays where it was, and the clone
\* is selected.
DuplicatePlacement ==
  (last.op = "duplicateBlock" /\ LookupHit) =>
    /\ selectedBlockId \notin AllIds(prev.blocks)
    /\ \E seq \in SequencesOf(blocks) : \E i \in 1..(Len(seq) - 1) :
         seq[i].id = last.id /\ seq[i + 1].id = selectedBlockId
    /\ deleteBlockFromTree(blocks, selectedBlockId) = prev.blocks

\* C10 - Duplicate identity: the clone's id is not an id of the tree and the
\* clone is otherwise equal to the original; for a columns block every
\* cloned column and child has an id that is not in the tree either, with
\* the same columns and children in the same order.
RECURSIVE CloneOf(_, _, _)
CloneOf(c, o, used) ==
  /\ c.id \notin used
  /\ IF o.type = "columns"
     THEN /\ [c EXCEPT !.id = 0, !.columns = <<>>] = [o EXCEPT !.id = 0, !.columns = <<>>]
          /\ Len(c.columns) = Len(o.columns)
          /\ \A j \in 1..Len(o.columns) :
               LET cc == c.columns[j]
                   oc == o.columns[j]
               IN /\ cc.id \notin used
                  /\ [cc EXCEPT !.id = 0, !.children = <<>>]
                       = [oc EXCEPT !.id = 0, !.children = <<>>]
                  /\ Len(cc.children) = Len(oc.children)
                  /\ \A k \in 1..Len(oc.children) :
                       CloneOf(cc.children[k], oc.children[k], used)
     ELSE c = [o EXCEPT !.id = c.id]

DuplicateIdentity ==
  (last.op = "duplicateBlock" /\ LookupHit) =>
    /\ findIndex(blocks, selectedBlockId) >= 0
    /\ CloneOf(blocks[findIndex(blocks, selectedBlockId) + 1],
               findBlockById(prev.blocks, last.id),
               AllIds(prev.blocks))

DuplicateIdentityWitness ==
  /\ last.op = "duplicateBlock"
  /\ LookupHit
  /\ findBlockById(prev.blocks, last.id).type = "columns"
  /\ \E j \in 1..Len(findBlockById(prev.blocks, last.id).columns) :
       findBlockById(prev.blocks, last.id).columns[j].children # <<>>

\* C15 - Two-level invariant at the store: starting from a tree in which no
\* column holds a columns block, after any sequence of addBlock and moveBlock
\* calls with any parentColumnId no column's children contain a block of type
\* columns, and an insertion that would put one there leaves the tree
\* unchanged.
TwoLevelAtStore ==
  /\ ~ColumnsInColumn(blocks)
  /\ ( /\ last.op = "addBlock"
       /\ last.parentId \in ColumnIds(prev.blocks)
       /\ findBlockById(blocks, last.id).type = "columns" ) => blocks = prev.blocks

\* the ids of the blocks that sit in a column of bs
NestedIds(bs) ==
  UNION { UNION { IdsOf(bs[i].columns[j].children) : j \in 1..Len(bs[i].columns) }
          : i \in 1..Len(bs) }

\* C12 - Nested find and delete: getBlockById of a child of a column returns
\* that child; deleteBlock of such a child removes exactly that child: the
\* other children of its column, the children of the other columns, the
\* columns themselves and all top-level blocks keep their ids, content and
\* order.
NestedFindAndDelete ==
  /\ \A i \in 1..Len(blocks) : \A j \in 1..Len(blocks[i].columns) :
       \A k \in 1..Len(blocks[i].columns[j].children) :
         LET child == blocks[i].columns[j].children[k]
         IN findBlockById(blocks, child.id) = child
  /\ (last.op = "deleteBlock" /\ last.id \in NestedIds(prev.blocks)) =>
       /\ IdsOfSeq(blocks) = IdsOfSeq(prev.blocks)
       /\ \A i \in 1..Len(prev.blocks) :
            LET old == prev.blocks[i]
                new == blocks[i]
            IN /\ [new EXCEPT !.columns = <<>>] = [old EXCEPT !.columns = <<>>]
               /\ IdsOfSeq(new.columns) = IdsOfSeq(old.columns)
               /\ \A j \in 1..Len(old.columns) :
                    /\ [new.columns[j] EXCEPT !.children = <<>>]
                         = [old.columns[j] EXCEPT !.children = <<>>]
                    /\ new.columns[j].children
                         = SelectSeq(old.columns[j].children, LAMBDA b : b.id # last.id)
                    /\ Len(new.columns[j].children)
                         = Len(old.columns[j].children)
                           - (IF last.id \in IdsOf(old.columns[j].children) THEN 1 ELSE 0)

NestedFindAndDeleteWitness ==
  /\ last.op = "deleteBlock"
  /\ last.id \in NestedIds(prev.blocks)
  /\ last.id \notin AllIds(blocks)
  /\ \E i \in 1..Len(prev.blocks) :
       /\ Len(prev.blocks[i].columns) = 2
       /\ Len(prev.blocks[i].columns[1].children) = 2
       /\ Len(prev.blocks[i].columns[2].children) = 1
       /\ Len(blocks[i].columns[1].children) = 1
       /\ findBlockById(blocks, blocks[i].columns[2].children[1].id).id
            = prev.blocks[i].columns[2].children[1].id
  /\ Len(blocks) = 2

\* C13 - deleteBlock and selection: after deleteBlock(id) selectedBlockId is
\* null when it was equal to id before the call and is unchanged in every
\* other case; hoveredBlockId and the drag fields are unchanged.
DeleteAndSelection ==
  last.op = "deleteBlock" =>
    /\ selectedBlockId
         = (IF prev.selectedBlockId = last.id THEN null ELSE prev.selectedBlockId)
    /\ hoveredBlockId = prev.hoveredBlockId
    /\ draggedBlockId = prev.draggedBlockId
    /\ dropTargetId = prev.dropTargetId
    /\ dropPosition = prev.dropPosition

DeleteAndSelectionWitness ==
  /\ last.op = "deleteBlock"
  /\ last.id \in AllIds(prev.blocks)
  /\ last.id \in NestedIds(prev.blocks)
  /\ prev.selectedBlockId = last.id
  /\ selectedBlockId = null

\* the sequence addBlock was aimed at: the top level or a column's children
AimedAt(bs, parentId) ==
  IF parentId = null THEN bs ELSE findBlockById(bs, parentId).children

\* C14 - addBlock placement: addBlock(block, index, parentColumnId) puts the
\* block at position index of the top-level sequence, or of the children of
\* the column whose id is parentColumnId, and at the end of that same
\* sequence when index is omitted; the blocks already there keep their
\* relative order, and selectedBlockId becomes the new block's id.
AddBlockPlacement ==
  (last.op = "addBlock" /\ last.parentId \in {null} \cup ColumnIds(prev.blocks)) =>
    LET before == AimedAt(prev.blocks, last.parentId)
        after == AimedAt(blocks, last.parentId)
        at == IF last.index = NoIndex THEN Len(before) ELSE last.index
    IN /\ selectedBlockId = last.id
       /\ Len(after) = Len(before) + 1
       /\ after[at + 1].id = last.id
       /\ SubSeq(after, 1, at) = SubSeq(before, 1, at)
       /\ SubSeq(after, at + 2, Len(after)) = SubSeq(before, at + 1, Len(before))

\* the styles a block of the tree shows, read through its reference
StylesShown(bs, heap, id) == heap[findBlockById(bs, id).styles]

\* C11 - duplicateBlock deep-clones: the clone shares no styles object with
\* a block of the tree it was cloned from, so a style change made through
\* the property panel's style listener leaves the styles of every block
\* other than the selected one as they were.
DuplicateSharesNothing ==
  /\ (last.op = "duplicateBlock" /\ LookupHit) =>
       \A id \in AllIds(prev.blocks) :
         findBlockById(blocks, selectedBlockId).styles # findBlockById(prev.blocks, id).styles
  /\ (last.op = "updateBlock" /\ styleObjects # prevStyles) =>
       \A id \in AllIds(blocks) \ {last.id} :
         StylesShown(blocks, styleObjects, id) = StylesShown(prev.blocks, prevStyles, id)

\* ---------------------------------------------------- claims on the drags
\* a drag was released and no other drag has started since
Released == released # NoRelease
\* that release made a store call
StoreCalled == Released /\ prev = released.state
\* the tree the release started from
TreeAtRelease == released.state.blocks

\* ids with x taken out and put back directly before or after t, or at
\* the end when the position is 'inside'
Placed(ids, x, t, position) ==
  LET others == SelectSeq(ids, LAMBDA i : i # x)
      at == FirstWhere(others, LAMBDA i : i = t)
  IN CASE position = "before" ->
            SubSeq(others, 1, at - 1) \o <<x>> \o SubSeq(others, at, Len(others))
       [] position = "after" ->
            SubSeq(others, 1, at) \o <<x>> \o SubSeq(others, at + 1, Len(others))
       [] OTHER -> Append(others, x)

\* C16 - Nesting rejection in the drag engine: releasing a new-block payload
\* of type columns while the resolved target is a column drop-zone (inside
\* the zone, or before/after one of its children) calls no store mutation:
\* blocks, selection and history are unchanged, and the drag ends in Idle.
NestingRejected ==
  ( /\ Released
    /\ released.dragData.type = "new-block"
    /\ released.dragData.blockType = "columns"
    /\ released.currentTarget.parentId # null ) =>
      /\ state = released.state
      /\ ~StoreCalled
      /\ idle

NestingRejectedWitness ==
  /\ Released
  /\ released.dragData.type = "new-block"
  /\ released.dragData.blockType = "columns"
  /\ released.currentTarget.parentId \in ColumnIds(blocks)
  /\ released.currentTarget.position = "before"
  /\ idle

\* the pointer (x, y) is over the rendered area of the wrapper of block id on
\* the canvas rendered from bs
OverOwnArea(bs, id, x, y) ==
  \/ \E i \in 1..Len(bs) :
       LET rect == cacheBlockRects(bs)[i]
       IN rect.id = id /\ y >= rect.top /\ y < rect.bottom
  \/ \E j \in 1..Len(cacheColumnRects(bs)) :
       LET column == cacheColumnRects(bs)[j]
       IN /\ x >= column.left /\ x <= column.right
          /\ \E k \in 1..Len(column.childRects) :
               LET rect == column.childRects[k]
               IN rect.id = id /\ y >= rect.top /\ y < rect.bottom

\* the target of the release was resolved for the pointer position of the
\* release: some frame ran and none was pending
ResolvedAtRelease ==
  /\ Released
  /\ ~released.rafId
  /\ released.dragData.type = "existing-block"

\* C17 - Dropping a block onto itself is a no-op: for every existing block,
\* releasing the drag while the pointer is over that same block's own
\* rendered area (for a columns block this includes the column drop-zones
\* inside it) leaves blocks deep-equal to the tree before the drag.
SelfDropNoOp ==
  ( /\ ResolvedAtRelease
    /\ OverOwnArea(TreeAtRelease, released.dragData.blockId, lastX, lastY) ) =>
      blocks = TreeAtRelease

\* the release was of an existing top-level block on a top-level target
TopLevelRelease ==
  /\ Released
  /\ released.dragData.type = "existing-block"
  /\ released.dragData.blockId \in IdsOf(TreeAtRelease)
  /\ released.currentTarget # NoTarget
  /\ released.currentTarget.parentId = null

\* the insertion point of the target is where the dragged block already is:
\* after its previous sibling or before its next sibling
SamePosition ==
  LET at == findIndex(TreeAtRelease, released.dragData.blockId)
      target == findIndex(TreeAtRelease, released.currentTarget.blockId)
  IN \/ target = at - 1 /\ released.currentTarget.position = "after"
     \/ target = at + 1 /\ released.currentTarget.position = "before"

\* C18 - Same-position drops skip the mutation: when an existing top-level
\* block is released on a top-level target whose insertion point equals the
\* block's current position, the engine calls no store operation, so
\* history.past and history.future are unchanged.
SamePositionSkips ==
  (TopLevelRelease /\ SamePosition) =>
    /\ ~StoreCalled
    /\ history = released.state.history

\* the release was of a new-block payload on a top-level target
TopLevelNewRelease ==
  /\ Released
  /\ released.dragData.type = "new-block"
  /\ released.currentTarget # NoTarget
  /\ released.currentTarget.parentId = null

\* every block of the tree the release started from is in the tree, as it was
OldBlocksKept ==
  \A i \in 1..Len(TreeAtRelease) :
    findBlockById(blocks, TreeAtRelease[i].id) = TreeAtRelease[i]

\* C19 - Top-level drop placement: releasing on a resolved top-level target
\* (T, before) or (T, after) inserts a new block, or relocates an existing
\* top-level block, so that it sits directly before T (directly after T) in
\* the top-level sequence with all other blocks in their previous relative
\* order; a new-block payload goes through addBlock, and an existing-block
\* payload through moveBlock when a store call is made at all.
TopLevelPlacement ==
  /\ TopLevelNewRelease =>
       /\ StoreCalled
       /\ last.op = "addBlock"
       /\ last.id \notin AllIds(TreeAtRelease)
       /\ findBlockById(blocks, last.id) = createBlock(released.dragData.blockType, last.id)
       /\ IdsOfSeq(blocks) = Placed(IdsOfSeq(TreeAtRelease), last.id,
                                    released.currentTarget.blockId,
                                    released.currentTarget.position)
       /\ OldBlocksKept
  /\ TopLevelRelease =>
       /\ StoreCalled => last.op = "moveBlock" /\ last.id = released.dragData.blockId
       /\ IdsOfSeq(blocks) = Placed(IdsOfSeq(TreeAtRelease), released.dragData.blockId,
                                    released.currentTarget.blockId,
                                    released.currentTarget.position)
       /\ OldBlocksKept

TopLevelPlacementWitness ==
  /\ TopLevelRelease
  /\ StoreCalled
  /\ released.currentTarget.position = "after"
  /\ released.dragData.sourceIndex = 0
  /\ released.currentTarget.index = 1
  /\ Len(blocks) = 3
  /\ blocks[2].id = released.dragData.blockId
  /\ blocks # TreeAtRelease

\* the release was on a column target, of a payload a column may take
ColumnRelease ==
  /\ Released
  /\ released.currentTarget.parentId \in ColumnIds(TreeAtRelease)
  /\ released.dragData.type = "new-block" => released.dragData.blockType # "columns"
  /\ released.dragData.type = "existing-block" =>
       findBlockById(TreeAtRelease, released.dragData.blockId).type # "columns"

\* C20 - Column drop placement: releasing on a resolved column target places
\* the payload in that column's children directly before the target child
\* (position before), directly after it (position after), or at the end of
\* the column (the target is the column itself), with the other children in
\* their previous relative order - also when the dragged block already is a
\* child of that same column.
ColumnPlacement ==
  ColumnRelease =>
    LET column == released.currentTarget.parentId
        payload == IF released.dragData.type = "new-block"
                   THEN last.id ELSE released.dragData.blockId
    IN /\ StoreCalled
       /\ IdsOfSeq(AimedAt(blocks, column))
            = Placed(IdsOfSeq(AimedAt(TreeAtRelease, column)), payload,
                     released.currentTarget.blockId, released.currentTarget.position)

\* ------------------------------------------------- claims on the targeting
\* a step in which the frame callback ran: it recomputed the target for the
\* pointer position (lastX, lastY)
FrameStep == rafId /\ ~rafId' /\ dragData' # NoDrag

\* the cached drop-zones that hold the pointer
ZonesAt(x, y) ==
  {j \in 1..Len(columnRects) :
     /\ x >= columnRects[j].left /\ x <= columnRects[j].right
     /\ y >= columnRects[j].top /\ y <= columnRects[j].bottom}

\* the cached top-level rects, other than the dragged block's, whose bottom
\* edge is below the pointer
Candidates(y) ==
  {i \in 1..Len(blockRects) :
     blockRects[i].id # dragData.blockId /\ y < blockRects[i].bottom}

\* the pointer is below every cached top-level rect
BelowAll(y) == \A i \in 1..Len(blockRects) : y >= blockRects[i].bottom

\* the first candidate, with before above its midpoint and after otherwise
FirstCandidateTarget(y) ==
  LET i == CHOOSE c \in Candidates(y) : \A d \in Candidates(y) : c <= d
      rect == blockRects[i]
  IN Target(rect.id, rect.index,
            IF 2 * y < rect.top + rect.bottom THEN "before" ELSE "after", null)

LastBlockAfter ==
  Target(blockRects[Len(blockRects)].id, blockRects[Len(blockRects)].index, "after", null)

\* C21 (as stated) - Midpoint targeting at top level: with the pointer
\* outside every column zone a pointer below all blocks resolves to
\* (last block, after), whichever block is dragged.
BelowAllTargetsLast ==
  [][ ( /\ FrameStep
        /\ ZonesAt(lastX, lastY) = {}
        /\ Len(blockRects) > 0
        /\ BelowAll(lastY) ) => currentTarget' = LastBlockAfter ]_vars

\* C21 - Midpoint targeting at top level: with the pointer outside every
\* column zone, the resolved target is the first block, other than the
\* dragged one, whose bottom edge is below the pointer, with position before
\* when the pointer is above that block's vertical midpoint and after
\* otherwise; a pointer below all blocks resolves to (last block, after),
\* unless the last block is the dragged one, and then to no target; the
\* dragged block is never the resolved target.
MidpointTargeting ==
  [][ ( /\ FrameStep
        /\ ZonesAt(lastX, lastY) = {}
        /\ Len(blockRects) > 0 ) =>
      /\ currentTarget'.blockId # dragData.blockId
      /\ Candidates(lastY) # {} => currentTarget' = FirstCandidateTarget(lastY)
      /\ (BelowAll(lastY) /\ blockRects[Len(blockRects)].id # dragData.blockId) =>
           currentTarget' = LastBlockAfter
      /\ (Candidates(lastY) = {} /\ blockRects[Len(blockRects)].id = dragData.blockId) =>
           currentTarget' = NoTarget ]_vars

MidpointTargetingWitness ==
  /\ dragData.type = "existing-block"
  /\ ~rafId
  /\ ZonesAt(lastX, lastY) = {}
  /\ Len(blockRects) = 3
  /\ dragData.blockId = blockRects[1].id
  /\ currentTarget = Target(blockRects[2].id, 1, "before", null)
  /\ lastY < blockRects[1].bottom

\* C22 - Column precedence: whenever the pointer lies inside the cached
\* rectangle of a column drop-zone, the resolved target carries that
\* column's id as parent, whatever top-level rectangle also contains the
\* pointer; the top-level rule is used only when the pointer is inside no
\* column zone.
ColumnPrecedence ==
  [][ FrameStep =>
      IF ZonesAt(lastX, lastY) # {}
      THEN \E j \in ZonesAt(lastX, lastY) :
             /\ \A k \in ZonesAt(lastX, lastY) : j <= k
             /\ currentTarget'.parentId = columnRects[j].id
      ELSE currentTarget'.parentId = null ]_vars

ColumnPrecedenceWitness ==
  /\ dragData # NoDrag
  /\ ~rafId
  /\ ZonesAt(lastX, lastY) # {}
  /\ currentTarget.parentId \in {columnRects[j].id : j \in ZonesAt(lastX, lastY)}
  /\ \E i \in 1..Len(blockRects) :
       /\ blockRects[i].id # dragData.blockId
       /\ lastY >= blockRects[i].top
       /\ lastY < blockRects[i].bottom
  /\ currentTarget.position = "after"

\* C23 - Cancel path: for a drag started on any sidebar template or any
\* rendered block, top-level or nested in a column, a drag-end without a
\* drop performs no store mutation and returns the engine to idle with every
\* affordance removed: no ghost remains in the document, no element carries
\* is-dragging, a shift class or a zone highlight, no indicator line remains.
CancelRemovesEverything ==
  (gestures > 0 /\ dragData = NoDrag) =>
    /\ blocks \in DragTrees
    /\ history = pushToHistory(initialState.history, initialState.blocks)
    /\ calls = 0
    /\ idle
    /\ frameRequests = 0
    /\ ghosts = 0
    /\ classes = {}
    /\ indicators = {}

\* C24 - Frame throttle: at most one target-recomputation frame request is
\* pending at any time, the engine's rafId tells whether one is, and none is
\* pending once the drag has ended by drop or by cancel, so that no
\* recomputation runs after the engine has returned to idle.
FrameThrottle ==
  /\ frameRequests <= 1
  /\ rafId <=> frameRequests = 1
  /\ dragData = NoDrag => frameRequests = 0

FrameThrottleWitness ==
  /\ Released
  /\ released.rafId
  /\ dragData = NoDrag
  /\ frameRequests = 0
  /\ ~ENABLED Frame

\* a step in which a drag is released after a pointer move was received:
\* its frame is pending, or a frame has resolved a target
DropStep ==
  /\ dragData # NoDrag
  /\ dragData' = NoDrag
  /\ released' # released
  /\ rafId \/ currentTarget # NoTarget

\* C25 - Throttling does not change the outcome of a drop: for every
\* interleaving of pointer moves, frames and the release, the target applied
\* on release is the one the targeting rule yields for the last pointer
\* position received before the release.
DropAppliesLastPosition ==
  [][ DropStep => currentTarget = updateDropTarget(lastX, lastY) ]_vars

\* the snapshot the last mutation pushed to history.past
Pushed == history.past[Len(history.past)]

\* C26 - History snapshots are independent of the live tree: the snapshot a
\* mutation pushes to history.past shows, for every block, the styles the
\* tree showed before the call - also when the call is the updateBlock of a
\* style change made through the property panel's style listener - so that
\* undo() after the change restores the block's previous style value.
SnapshotsIndependent ==
  (Applied /\ history.past # <<>>) =>
    /\ Pushed = prev.blocks
    /\ \A id \in AllIds(Pushed) :
         StylesShown(Pushed, styleObjects, id) = StylesShown(prev.blocks, prevStyles, id)

\* C27 - loadData is not history-tracked: it replaces the blocks, the styles
\* and the variables and adds no entry to history.past, so that undo() after
\* it does not bring back the previous document.
LoadDataUntracked ==
  (last.op = "setBlocks" /\ calls > 0) =>
    /\ history.past = prev.history.past
    /\ undo(state).blocks = blocks

\* the calls that are no structural mutation
NonStructural ==
  {"selectBlock", "hoverBlock", "setDrag", "setEmailStyles", "setVariables",
   "setPreviewMode", "setZoom", "toggleGrid"}

\* a step made by a call of op
CallStep(op) == last'.op = op /\ prev' = state

\* C28 - Non-structural setters: selectBlock, hoverBlock, setDrag,
\* setEmailStyles, setVariables, setPreviewMode, setZoom and toggleGrid never
\* change blocks, history.past or history.future; setEmailStyles sets
\* isDirty; undo() and redo() leave the email styles and the variables as
\* they are, so undo() never reverts a style or variable change.
NonStructuralSetters ==
  [][ /\ \A op \in NonStructural :
           CallStep(op) => /\ blocks' = blocks
                           /\ history' = history
                           /\ op = "setEmailStyles" => isDirty'
      /\ (CallStep("undo") \/ CallStep("redo")) =>
           UNCHANGED <<emailStyles, variables>> ]_vars

NonStructuralSettersWitness ==
  /\ last.op = "undo"
  /\ blocks # prev.blocks
  /\ emailStyles # DEFAULT_EMAIL_STYLES
  /\ variables # DEFAULT_VARIABLES
  /\ uiCalls = MaxUiCalls

\* the key of a token piece: the token without braces and blanks
KeyOf(piece) == SelectSeq(piece, LAMBDA c : c \notin {"{", "}", " "})

\* a piece after the substitution: the bound value for a token of a bound
\* key, the piece itself otherwise
Substituted(piece) ==
  IF piece \in TokenPieces /\ KeyOf(piece) \in DOMAIN Bindings
  THEN Bindings[KeyOf(piece)] ELSE piece

\* C29 - Variable substitution: replaceVariables replaces every token
\* {{ key }}, with any amount of whitespace inside the braces, whose key is
\* bound by the bound value, also when that value is the empty string, and
\* leaves every token whose key is not bound, and all other text, exactly
\* as it was.
VariableSubstitution ==
  source = "text" =>
    output = Flatten([i \in 1..Len(text) |-> Substituted(text[i])])

VariableSubstitutionWitness ==
  /\ source = "text"
  /\ \E i, j, k \in 1..Len(text) :
       /\ text[i] = <<"{", "{", " ", "a", " ", " ", "}", "}">>
       /\ text[j] = <<"{", "{", "e", " ", "}", "}">>
       /\ text[k] = <<"{", "{", " ", "b", "}", "}">>
  /\ output # Flatten(text)

\* ----------------------------------------------------- claims on rendering
OpenTags == {"<html>", "<body>", "<center>", "<table>", "<tr>", "<td>", "<a>"}
CloseTags == {"</html>", "</body>", "</center>", "</table>", "</tr>", "</td>", "</a>"}

\* the number of elements open before token i of h
DepthBefore(h, i) ==
  Cardinality({k \in 1..(i - 1) : h[k] \in OpenTags})
  - Cardinality({k \in 1..(i - 1) : h[k] \in CloseTags})

\* the elements of h with the opening tag `tag` that lie at depth d, in order
ElementsAt(h, tag, d) ==
  LET starts == {i \in 1..Len(h) : h[i] = tag /\ DepthBefore(h, i) = d}
      closes == {j \in 1..Len(h) : h[j] \in CloseTags /\ DepthBefore(h, j) = d + 1}
      nth(n) == CHOOSE i \in starts : Cardinality({k \in starts : k < i}) = n - 1
      end(i) == CHOOSE j \in closes : j > i /\ \A k \in closes : k > i => j <= k
  IN [n \in 1..Cardinality(starts) |-> SubSeq(h, nth(n), end(nth(n)))]

\* the text of h: its tokens that are no tags
Chars(h) == SelectSeq(h, LAMBDA c : c \notin OpenTags \cup CloseTags)

\* what the blocks of the rendered documents show: the bound value for
\* {{a}}, nothing for {{e }}, the token itself for the unbound {{ b}}, and
\* the entity for the `<` of a button text
Shown ==
  [id \in 1..7 |->
     CASE id = 1 -> <<"J", "o", "&lt;">>
       [] id = 4 -> <<"b", "_">>
       [] id = 5 -> <<"{", "{", " ", "b", "}", "}">>
       [] id = 7 -> <<"1">>
       [] OTHER -> <<>>]

RECURSIVE RowShows(_, _)
\* row is the row of block: a leaf row holds the block's text, as a link for
\* a button; a columns row holds one cell per column, in order, and each
\* cell one row per child, in order
RowShows(row, block) ==
  IF block.type = "columns"
  THEN LET cells == ElementsAt(row, "<td>", 4) IN
       /\ Len(cells) = Len(block.columns)
       /\ \A j \in 1..Len(cells) :
            LET rows == ElementsAt(cells[j], "<tr>", 2)
                children == block.columns[j].children
            IN /\ Len(rows) = Len(children)
               /\ \A k \in 1..Len(rows) : RowShows(rows[k], children[k])
  ELSE /\ Chars(row) = Shown[block.id]
       /\ (block.type = "button") <=> (\E i \in 1..Len(row) : row[i] = "<a>")

RejectedStep == \E u \in uploads : u.settled = "rejected" /\ uploads' = uploads \ {u}

\* C31: when the upload started for an image or logo block fails, no store
\* operation is called: the tree (and with it the block's src), the history,
\* the selection and the dirty flag are what they were.
UploadFailureKeepsBlock ==
  [][RejectedStep =>
       /\ blocks' = blocks
       /\ history' = history
       /\ selectedBlockId' = selectedBlockId
       /\ isDirty' = isDirty
       /\ calls' = calls]_vars

\* an upload for the logo in the column failed after an earlier one had given
\* the block its src
UploadFailureKeepsBlockWitness ==
  /\ last.op = "uploadFailed"
  /\ last.id = 4
  /\ findBlockById(blocks, 4) # undefined
  /\ findBlockById(blocks, 4).src \in Urls
  /\ Len(history.past) = 2

\* --------------------------------------------------------------------------
\* the last call is the moveBlock of a move-up / move-down of a top-level block
MovedUp ==
  /\ last.op = "moveBlock"
  /\ findIndex(prev.blocks, last.id) > 0
  /\ last.index = findIndex(prev.blocks, last.id) - 1
MovedDown ==
  /\ last.op = "moveBlock"
  /\ findIndex(prev.blocks, last.id) >= 0
  /\ last.index = findIndex(prev.blocks, last.id) + 2

\* C32: Ctrl+ArrowDown and the move-down action move a top-level block at
\* index i < length-1 to index i+1, Ctrl+ArrowUp and move-up move one at
\* index i > 0 to index i-1, and the other blocks keep their relative order.
KeyboardMove ==
  (MovedUp \/ MovedDown) =>
    /\ Len(blocks) = Len(prev.blocks)
    /\ findIndex(blocks, last.id)
         = findIndex(prev.blocks, last.id) + (IF MovedDown THEN 1 ELSE -1)
    /\ SelectSeq(IdsOfSeq(blocks), LAMBDA i : i # last.id)
         = SelectSeq(IdsOfSeq(prev.blocks), LAMBDA i : i # last.id)

\* --------------------------------------------------------------------------
\* C33: in every reachable state selectedBlockId is null or the id of a block
\* that is present in the current tree.
SelectionValid == selectedBlockId = null \/ selectedBlockId \in AllIds(blocks)

\* --------------------------------------------------------------------------
\* C34: the ids of every reachable tree are pairwise distinct across top-level
\* blocks, columns and column children, whatever id the calls are given.
IdsUnique == \A id \in AllIds(blocks) : CountId(blocks, id) = 1

\* --------------------------------------------------------------------------
\* C35: after the release of any drag, of a new or an existing block of any
\* type over any target, no column holds a columns block and every block that
\* was in the tree before the release is still in it.
DragKeepsTree ==
  Released =>
    /\ ~ColumnsInColumn(blocks)
    /\ AllIds(TreeAtRelease) \subseteq AllIds(blocks)

\* --------------------------------------------------------------------------
\* the release was of a block that was a child of a column, on a top-level target
NestedRelease ==
  /\ Released
  /\ released.dragData.type = "existing-block"
  /\ released.dragData.blockId \in NestedIds(TreeAtRelease)
  /\ released.currentTarget # NoTarget
  /\ released.currentTarget.parentId = null

\* C36: a child of a column released on a top-level target (T, before|after)
\* leaves its column and sits directly before (after) T in the top-level
\* sequence, whatever its index inside the column was.
NestedDragOut ==
  NestedRelease =>
    /\ released.dragData.blockId \notin NestedIds(blocks)
    /\ IdsOfSeq(blocks) = Placed(IdsOfSeq(TreeAtRelease), released.dragData.blockId,
                                 released.currentTarget.blockId,
                                 released.currentTarget.position)

\* --------------------------------------------------------------------------
\* the wrappers of blocks in columns that a dragstart listener has marked: the
\* innermost wrapper on the path of the event is the one the drag started on
StartedOn == {id \in NestedIds(blocks) : Class(id, "is-dragging") \in classes}

\* C37: while a drag that started on a block rendered inside a column is under
\* way, the payload of the engine is that block's id, not the id of the
\* enclosing columns block, and exactly one ghost element exists.
PayloadIsStartedBlock ==
  (dragData # NoDrag /\ StartedOn # {}) =>
    /\ dragData.type = "existing-block"
    /\ dragData.blockId \in StartedOn
    /\ ghosts = 1

\* --------------------------------------------------------------------------
\* the last call is an undo issued on the editor as its constructor left it:
\* no store call has been made but undo and redo, and nothing is undone yet
UndoBeforeAnyEdit ==
  /\ last.op = "undo"
  /\ calls = 0
  /\ uiCalls = 0
  /\ prev.history.future = <<>>

\* C38: right after the constructor history.past is empty, so an undo issued
\* before any user edit leaves the initial blocks in place.
FreshEditorNothingToUndo ==
  UndoBeforeAnyEdit =>
    /\ prev.history.past = <<>>
    /\ blocks = prev.blocks

\* --------------------------------------------------------------------------
RECURSIVE Resolved(_, _)
\* the tree with the tokens of its texts replaced under bindings
Resolved(bs, bindings) ==
  [i \in 1..Len(bs) |->
     [bs[i] EXCEPT
        !.content = IF bs[i].type \in {"text", "button"}
                    THEN replaceVariables(bs[i].content, bindings, TRUE)
                    ELSE bs[i].content,
        !.columns = [j \in 1..Len(bs[i].columns) |->
                       [bs[i].columns[j] EXCEPT
                          !.children = Resolved(bs[i].columns[j].children, bindings)]]]]

\* C39: the bindings and the email styles getHtml / exportHtml / showPreview
\* render with are the store's current variables and emailStyles, so the
\* rendered HTML shows the tokens of the document replaced by the default
\* values of the store's variables.
ExportFollowsStore ==
  last.op = "render" =>
    /\ RendererVariables = MapOf(variables)
    /\ RendererStyles = emailStyles
    /\ output = render(Resolved(blocks, MapOf(variables)))

====
